---------------------------- MODULE Spec2Model ----------------------------
(***************************************************************************)
(* A model of the constraint DSL of air-icicle (crate icicle-trace):       *)
(* SymbolicVariable, the SymbolicExpression algebra with its stored        *)
(* degree, the AirBuilder surface, FilteredAirBuilder and                  *)
(* SymbolicAirBuilder.                                                     *)
(*                                                                         *)
(* Values of a Rust enum are tuples whose first element is the variant     *)
(* name and whose remaining elements are the variant's fields, in the      *)
(* order of the declaration; equality of tuples is then the derived        *)
(* structural PartialEq.                                                   *)
(***************************************************************************)
EXTENDS Integers, Sequences, FiniteSets, TLC

VARIABLES acc, last, params, builder, calls, air, trace, pis, row, outcome

vars == <<acc, last, params, builder, calls, air, trace, pis, row, outcome>>

---------------------------------------------------------------------------
(* Bounds of the model *)

\* The field F is the integers modulo P
P == 3
\* expressions built in the algebra have at most this many nodes
MaxNodes == 5
\* Sum and Product are taken over at most this many expressions
MaxSeq == 2
\* SymbolicAirBuilder::new is called with widths and a number of public
\* values up to these
MaxPreprocessedWidth == 1
MaxWidth == 2
MaxPublicValues == 1
\* an eval makes at most this many assertion calls
MaxCalls == 2

Max(a, b) == IF a >= b THEN a ELSE b
Range(f) == {f[i] : i \in DOMAIN f}

---------------------------------------------------------------------------
(* The field F: FieldImpl + Arithmetic *)

Felts == 0 .. (P - 1)

FAdd(a, b) == (a + b) % P
FSub(a, b) == (a - b) % P
FMul(a, b) == (a * b) % P
Fzero == 0
Fone == 1 % P
F_from_u32(v) == v % P

---------------------------------------------------------------------------
(* symbolic_variable.rs *)

OffsetEntries == {"Preprocessed", "Main", "Permutation"}

\* enum Entry: <<"Main", offset>>, ..., <<"Public">>, <<"Challenge">>
Preprocessed(offset) == <<"Preprocessed", offset>>
Main(offset) == <<"Main", offset>>
Permutation(offset) == <<"Permutation", offset>>
Public == <<"Public">>
Challenge == <<"Challenge">>

\* SymbolicVariable::new
SymbolicVariable(entry, index) == [entry |-> entry, index |-> index]

\* SymbolicVariable::degree_multiple
VarDegreeMultiple(v) ==
    IF v.entry[1] \in {"Preprocessed", "Main", "Permutation"} THEN 1 ELSE 0

---------------------------------------------------------------------------
(* symbolic_expression.rs: enum SymbolicExpression *)

Variable(v) == <<"Variable", v>>
IsFirstRow == <<"IsFirstRow">>
IsLastRow == <<"IsLastRow">>
IsTransition == <<"IsTransition">>
Constant(c) == <<"Constant", c>>
Add(x, y, degree_multiple) == <<"Add", x, y, degree_multiple>>
Sub(x, y, degree_multiple) == <<"Sub", x, y, degree_multiple>>
Neg(x, degree_multiple) == <<"Neg", x, degree_multiple>>
Mul(x, y, degree_multiple) == <<"Mul", x, y, degree_multiple>>

Tag(e) == e[1]
IsConstant(e) == Tag(e) = "Constant"
BinaryTags == {"Add", "Sub", "Mul"}

\* SymbolicExpression::degree_multiple: the leaves by variant, the operator
\* nodes by their stored field
degree_multiple(e) ==
    CASE Tag(e) = "Variable" -> VarDegreeMultiple(e[2])
      [] Tag(e) = "IsFirstRow" -> 1
      [] Tag(e) = "IsLastRow" -> 1
      [] Tag(e) = "IsTransition" -> 0
      [] Tag(e) = "Constant" -> 0
      [] Tag(e) \in BinaryTags -> e[4]
      [] Tag(e) = "Neg" -> e[3]

\* From<F> and From<SymbolicVariable<F>>
FromF(value) == Constant(value)
FromVar(value) == Variable(value)

\* FieldImpl::zero / one / from_u32 of SymbolicExpression
zero == Constant(Fzero)
one == Constant(Fone)
from_u32(val) == Constant(F_from_u32(val))
from_canonical_u32(n) == Constant(F_from_u32(n))

\* impl Add
add(lhs, rhs) ==
    IF IsConstant(lhs) /\ IsConstant(rhs)
    THEN Constant(FAdd(lhs[2], rhs[2]))
    ELSE Add(lhs, rhs, Max(degree_multiple(lhs), degree_multiple(rhs)))

\* a subtraction that drops a zero on its left
sub_left_zero(lhs, rhs) ==
    IF IsConstant(lhs) /\ IsConstant(rhs)
    THEN Constant(FSub(lhs[2], rhs[2]))
    ELSE IF lhs = Constant(Fzero) THEN rhs
    ELSE Sub(lhs, rhs, Max(degree_multiple(lhs), degree_multiple(rhs)))

\* impl Sub
sub(lhs, rhs) ==
    IF IsConstant(lhs) /\ IsConstant(rhs)
    THEN Constant(FSub(lhs[2], rhs[2]))
    ELSE Sub(lhs, rhs, Max(degree_multiple(lhs), degree_multiple(rhs)))

\* a negation that forgets to fold a constant operand
neg_unfolded(expr) == Neg(expr, degree_multiple(expr))

\* impl Neg
neg(expr) ==
    IF IsConstant(expr)
    THEN Constant(FSub(Fzero, expr[2]))
    ELSE Neg(expr, degree_multiple(expr))

\* a product that takes the degree rule of the sum
mul_degree_max(lhs, rhs) ==
    IF IsConstant(lhs) /\ IsConstant(rhs)
    THEN Constant(FMul(lhs[2], rhs[2]))
    ELSE Mul(lhs, rhs, Max(degree_multiple(lhs), degree_multiple(rhs)))

\* impl Mul
mul(lhs, rhs) ==
    IF IsConstant(lhs) /\ IsConstant(rhs)
    THEN Constant(FMul(lhs[2], rhs[2]))
    ELSE Mul(lhs, rhs, degree_multiple(lhs) + degree_multiple(rhs))

\* Arithmetic::sqr: always a Mul node, also of a constant
sqr(self) == Mul(self, self, degree_multiple(self) * 2)

\* Arithmetic::pow, for the exponents it implements (any other aborts)
PowExps == {0, 1, 2}
pow(self, exp) ==
    CASE exp = 0 -> Constant(Fone)
      [] exp = 1 -> self
      [] exp = 2 -> sqr(self)

\* Iterator::reduce with |x, y| x + y: None on an empty iterator, else the
\* left fold that starts from the first element
RECURSIVE ReduceAdd(_)
ReduceAdd(s) ==
    IF Len(s) = 1 THEN s[1]
    ELSE add(ReduceAdd(SubSeq(s, 1, Len(s) - 1)), s[Len(s)])

RECURSIVE ReduceMul(_)
ReduceMul(s) ==
    IF Len(s) = 1 THEN s[1]
    ELSE mul(ReduceMul(SubSeq(s, 1, Len(s) - 1)), s[Len(s)])

\* impl Sum
sum(iter) == IF Len(iter) = 0 THEN from_canonical_u32(0) ELSE ReduceAdd(iter)

\* impl Product
product(iter) == IF Len(iter) = 0 THEN Constant(F_from_u32(1)) ELSE ReduceMul(iter)

---------------------------------------------------------------------------
(* Structure of an expression, read off the nodes *)

RECURSIVE Nodes(_)
Nodes(e) ==
    CASE Tag(e) \in BinaryTags -> 1 + Nodes(e[2]) + Nodes(e[3])
      [] Tag(e) = "Neg" -> 1 + Nodes(e[2])
      [] OTHER -> 1

\* the degree recomputed from the structure alone, never reading a stored
\* degree_multiple field
RECURSIVE StructuralDegree(_)
StructuralDegree(e) ==
    CASE Tag(e) = "Constant" -> 0
      [] Tag(e) = "IsTransition" -> 0
      [] Tag(e) = "IsFirstRow" -> 1
      [] Tag(e) = "IsLastRow" -> 1
      [] Tag(e) = "Variable" -> IF e[2].entry[1] \in OffsetEntries THEN 1 ELSE 0
      [] Tag(e) \in {"Add", "Sub"} ->
            Max(StructuralDegree(e[2]), StructuralDegree(e[3]))
      [] Tag(e) = "Neg" -> StructuralDegree(e[2])
      [] Tag(e) = "Mul" -> StructuralDegree(e[2]) + StructuralDegree(e[3])

\* every node of e, e included
RECURSIVE SubExprs(_)
SubExprs(e) ==
    CASE Tag(e) \in BinaryTags -> {e} \cup SubExprs(e[2]) \cup SubExprs(e[3])
      [] Tag(e) = "Neg" -> {e} \cup SubExprs(e[2])
      [] OTHER -> {e}

---------------------------------------------------------------------------
(* symbolic_builder.rs: SymbolicAirBuilder *)

\* RowMajorMatrix::new(values, width): the values of the rows one after
\* the other, and the width of a row
RowMajorMatrix(values, width) == [values |-> values, width |-> width]

\* (0..width).map(|index| SymbolicVariable::new(Entry::Preprocessed{offset}, index))
PreprocessedRow(offset, width) ==
    [i \in 1 .. width |-> SymbolicVariable(Preprocessed(offset), i - 1)]

\* (0..width).map(|index| SymbolicVariable::new(Entry::Main{offset}, index))
MainRow(offset, width) ==
    [i \in 1 .. width |-> SymbolicVariable(Main(offset), i - 1)]

\* a constructor whose main rows were copied from the preprocessed ones
new_main_as_preprocessed(preprocessed_width, width, num_public_values) ==
    [preprocessed |->
        RowMajorMatrix(PreprocessedRow(0, preprocessed_width)
                           \o PreprocessedRow(1, preprocessed_width),
                       preprocessed_width),
     main |->
        RowMajorMatrix(PreprocessedRow(0, width) \o PreprocessedRow(1, width), width),
     public_values |->
        [i \in 1 .. num_public_values |-> SymbolicVariable(Public, i - 1)],
     constraints |-> <<>>]

\* SymbolicAirBuilder::new: [0, 1].flat_map(row of that offset)
new(preprocessed_width, width, num_public_values) ==
    [preprocessed |->
        RowMajorMatrix(PreprocessedRow(0, preprocessed_width)
                           \o PreprocessedRow(1, preprocessed_width),
                       preprocessed_width),
     main |->
        RowMajorMatrix(MainRow(0, width) \o MainRow(1, width), width),
     public_values |->
        [i \in 1 .. num_public_values |-> SymbolicVariable(Public, i - 1)],
     constraints |-> <<>>]

\* SymbolicAirBuilder::constraints
constraints(b) == b.constraints

\* panic!(message): the value of a call that aborts the program instead of
\* returning; what is built from it has aborted too
Panic(message) == <<"panic", message>>
Panicked(e) == Tag(e) = "panic"

\* impl AirBuilder for SymbolicAirBuilder
main(b) == b.main
is_first_row(b) == IsFirstRow
is_last_row(b) == IsLastRow

\* a window size of 2 is the only one accepted
is_transition_window_any(b, size) == IsTransition

is_transition_window(b, size) ==
    IF size = 2 THEN IsTransition
    ELSE Panic("uni-stark only supports a window size of 2")

builder_zero(b) == zero
builder_one(b) == one
builder_from_u32(b, val) == from_u32(val)

\* impl AirBuilderWithPublicValues / PairBuilder for SymbolicAirBuilder
public_values(b) == b.public_values
preprocessed(b) == b.preprocessed

\* an assert_zero that puts the new constraint in front
assert_zero_prepend(b, x) == [b EXCEPT !.constraints = <<x>> \o @]

\* SymbolicAirBuilder::assert_zero: self.constraints.push(x.into())
assert_zero(b, x) == [b EXCEPT !.constraints = Append(@, x)]

---------------------------------------------------------------------------
(* air.rs: the provided methods of AirBuilder, on a SymbolicAirBuilder *)

is_transition(b) == is_transition_window(b, 2)
builder_two(b) == add(builder_one(b), builder_one(b))

assert_one(b, x) == assert_zero(b, sub(x, builder_one(b)))

\* an assert_eq that records the sum of its operands
assert_eq_sum(b, x, y) == assert_zero(b, add(x, y))

assert_eq(b, x, y) == assert_zero(b, sub(x, y))

assert_bool(b, x) == assert_zero(b, mul(x, sub(x, builder_one(b))))

assert_tern(b, x) ==
    LET one_ == builder_one(b)
        two_ == builder_two(b)
    IN assert_zero(b, mul(mul(x, sub(x, one_)), sub(x, two_)))

(* air.rs: FilteredAirBuilder.  inner is the builder the filter borrows;   *)
(* an assertion on the filter yields the new value of that builder.        *)

\* a when that asserts its condition on the builder it borrows
when_asserting(b, condition) ==
    [inner |-> assert_zero(b, condition), condition |-> condition]

\* AirBuilder::when
when(b, condition) == [inner |-> b, condition |-> condition]
when_first_row(b) == when(b, is_first_row(b))
when_last_row(b) == when(b, is_last_row(b))
when_transition(b) == when(b, is_transition(b))
when_transition_window(b, size) == when(b, is_transition_window(b, size))

\* FilteredAirBuilder::condition / one
condition(fb) == fb.condition
filtered_one(fb) == builder_one(fb.inner)

\* a filter that forgets its condition
filtered_assert_zero_unfiltered(fb, x) == assert_zero(fb.inner, x)

\* a filter that multiplies by its condition on the right
filtered_assert_zero_right(fb, x) == assert_zero(fb.inner, mul(x, condition(fb)))

\* FilteredAirBuilder::assert_zero
filtered_assert_zero(fb, x) == assert_zero(fb.inner, mul(condition(fb), x))

\* FilteredAirBuilder::assert_eq
filtered_assert_eq(fb, x, y) == filtered_assert_zero(fb, sub(x, y))

\* FilteredAirBuilder::assert_one
filtered_assert_one(fb, x) == filtered_assert_zero(fb, sub(x, filtered_one(fb)))

\* A filter made from a filter, as in builder.when(c1).when_transition():
\* nesting multiplies the selectors, and the filter made still borrows the
\* innermost builder.
filtered_when(fb, c) == [inner |-> fb.inner, condition |-> mul(condition(fb), c)]

---------------------------------------------------------------------------
(* An AIR.  eval is generic code over the builder: the model keeps it as   *)
(* the statements it makes, in order, each an assertion called on the      *)
(* builder itself or on a filter of it, over terms built from the cells of *)
(* the two-row window of main and from the public values.                  *)

LocalCell(i) == <<"local", i>>
NextCell(i) == <<"next", i>>
PublicValue(i) == <<"public", i>>
Plus(s, t) == <<"add", s, t>>
Times(s, t) == <<"mul", s, t>>

Unfiltered == <<"none">>
WhenFirstRow == <<"when_first_row">>
WhenLastRow == <<"when_last_row">>
WhenTransition == <<"when_transition">>
WhenTransitionWindow(size) == <<"when_transition_window", size>>

Stmt(filter, name, args) == [when |-> filter, name |-> name, args |-> args]

NUM_FIBONACCI_COLS == 2

\* FibonacciAir: width and eval.  eval first reads the public values
\* pis[0], pis[1], pis[2] and the rows 0 and 1 of main.
FibonacciAir ==
    [name |-> "FibonacciAir",
     width |-> NUM_FIBONACCI_COLS,
     eval |-> <<
        Stmt(WhenFirstRow, "assert_eq", <<LocalCell(0), PublicValue(0)>>),
        Stmt(WhenFirstRow, "assert_eq", <<LocalCell(1), PublicValue(1)>>),
        Stmt(WhenTransition, "assert_eq", <<LocalCell(1), NextCell(0)>>),
        Stmt(WhenTransition, "assert_eq",
             <<Plus(LocalCell(0), LocalCell(1)), NextCell(1)>>),
        Stmt(WhenLastRow, "assert_eq", <<LocalCell(1), PublicValue(2)>>) >>]

\* an AIR that asserts nothing
EmptyAir == [name |-> "EmptyAir", width |-> NUM_FIBONACCI_COLS, eval |-> <<>>]

\* an AIR that calls assert_eq and assert_zero on the builder itself
DirectAir ==
    [name |-> "DirectAir",
     width |-> NUM_FIBONACCI_COLS,
     eval |-> <<
        Stmt(Unfiltered, "assert_eq", <<LocalCell(0), PublicValue(0)>>),
        Stmt(Unfiltered, "assert_zero", <<LocalCell(1)>>) >>]

\* an AIR with one constraint of degree d: a public value times d cells
RECURSIVE PowerTerm(_)
PowerTerm(d) ==
    IF d = 0 THEN PublicValue(0) ELSE Times(PowerTerm(d - 1), LocalCell(0))

PowerAir(d) ==
    [name |-> "PowerAir",
     width |-> NUM_FIBONACCI_COLS,
     eval |-> << Stmt(Unfiltered, "assert_zero", <<PowerTerm(d)>>) >>]

\* an AIR that asserts on the builder, then through a transition window
\* of the given size
WindowAir(size) ==
    [name |-> "WindowAir",
     width |-> NUM_FIBONACCI_COLS,
     eval |-> <<
        Stmt(Unfiltered, "assert_zero", <<LocalCell(0)>>),
        Stmt(WhenTransitionWindow(size), "assert_zero", <<LocalCell(1)>>),
        Stmt(Unfiltered, "assert_zero", <<LocalCell(1)>>) >>]

\* what a call gives back: its value when it returns, or the panic it
\* aborts with and the state it leaves behind
Returned(value) == [panic |-> <<>>, value |-> value, at |-> 0]
Aborted(panic, value, at) == [panic |-> panic, value |-> value, at |-> at]

\* Matrix::row_slice
row_slice(m, r) == SubSeq(m.values, r * m.width + 1, (r + 1) * m.width)

---------------------------------------------------------------------------
(* eval on a SymbolicAirBuilder: AB::Var is SymbolicVariable, AB::Expr is  *)
(* SymbolicExpression                                                      *)

RECURSIVE SymTerm(_, _)
SymTerm(b, t) ==
    CASE t[1] = "local" -> FromVar(row_slice(main(b), 0)[t[2] + 1])
      [] t[1] = "next" -> FromVar(row_slice(main(b), 1)[t[2] + 1])
      [] t[1] = "public" -> FromVar(public_values(b)[t[2] + 1])
      [] t[1] = "add" -> add(SymTerm(b, t[2]), SymTerm(b, t[3]))
      [] t[1] = "mul" -> mul(SymTerm(b, t[2]), SymTerm(b, t[3]))

SymFilter(b, f) ==
    CASE f[1] = "when_first_row" -> when_first_row(b)
      [] f[1] = "when_last_row" -> when_last_row(b)
      [] f[1] = "when_transition" -> when_transition(b)
      [] f[1] = "when_transition_window" -> when_transition_window(b, f[2])

\* one statement of eval: the builder after it, or the panic of the
\* selector it asked for and the builder as it was
SymStmt(b, st) ==
    IF st.when = Unfiltered
    THEN CASE st.name = "assert_zero" ->
                 Returned(assert_zero(b, SymTerm(b, st.args[1])))
           [] st.name = "assert_eq" ->
                 Returned(assert_eq(b, SymTerm(b, st.args[1]),
                                    SymTerm(b, st.args[2])))
    ELSE LET fb == SymFilter(b, st.when)
         IN IF Panicked(condition(fb)) THEN Aborted(condition(fb), b, 0)
            ELSE CASE st.name = "assert_zero" ->
                        Returned(filtered_assert_zero(fb, SymTerm(b, st.args[1])))
                   [] st.name = "assert_eq" ->
                        Returned(filtered_assert_eq(fb, SymTerm(b, st.args[1]),
                                                    SymTerm(b, st.args[2])))

\* air.eval(&mut builder), from statement k on
RECURSIVE SymEval(_, _, _)
SymEval(stmts, b, k) ==
    IF k > Len(stmts) THEN Returned(b)
    ELSE LET r == SymStmt(b, stmts[k])
         IN IF r.panic # <<>> THEN Aborted(r.panic, r.value, k)
            ELSE SymEval(stmts, r.value, k + 1)

eval(a, b) == SymEval(a.eval, b, 1)

\* get_symbolic_constraints
get_symbolic_constraints(a, preprocessed_width, num_public_values) ==
    LET r == eval(a, new(preprocessed_width, a.width, num_public_values))
    IN IF r.panic # <<>> THEN r ELSE Returned(constraints(r.value))

\* Iterator::max, and the Option it is unwrapped from
MaxOf(S) == CHOOSE m \in S : \A n \in S : n <= m
max_unwrap_or(S, default) == IF S = {} THEN default ELSE MaxOf(S)

\* a maximum degree that starts from the padding of the quotient degree
get_max_constraint_degree_padded(a, preprocessed_width, num_public_values) ==
    LET r == get_symbolic_constraints(a, preprocessed_width, num_public_values)
    IN IF r.panic # <<>> THEN r
       ELSE Returned(max_unwrap_or({degree_multiple(c) : c \in Range(r.value)} \cup {2}, 0))

\* get_max_constraint_degree
get_max_constraint_degree(a, preprocessed_width, num_public_values) ==
    LET r == get_symbolic_constraints(a, preprocessed_width, num_public_values)
    IN IF r.panic # <<>> THEN r
       ELSE Returned(max_unwrap_or({degree_multiple(c) : c \in Range(r.value)}, 0))

usize_BITS == 64

\* usize::saturating_sub
saturating_sub(n, m) == IF n >= m THEN n - m ELSE 0

\* the number of bits of n: 0 for 0
RECURSIVE BitLength(_)
BitLength(n) == IF n = 0 THEN 0 ELSE 1 + BitLength(n \div 2)

\* usize::leading_zeros
leading_zeros(n) == usize_BITS - BitLength(n)

\* a rounding that forgets to step back by one
log2_ceil_usize_floor(n) == usize_BITS - leading_zeros(n)

\* log2_ceil_usize
log2_ceil_usize(n) == usize_BITS - leading_zeros(saturating_sub(n, 1))

\* get_log_quotient_degree
get_log_quotient_degree(a, preprocessed_width, num_public_values) ==
    LET r == get_max_constraint_degree(a, preprocessed_width, num_public_values)
    IN IF r.panic # <<>> THEN r
       ELSE LET constraint_degree == Max(r.value, 2)
            IN Returned(log2_ceil_usize(constraint_degree - 1))

---------------------------------------------------------------------------
(* check_constraints.rs: DebugConstraintBuilder.  AB::Var and AB::Expr are *)
(* F; an assertion returns the builder, or aborts with the message, the    *)
(* row and the two sides of the failed assert_eq!.                         *)

from_bool(b) == IF b THEN Fone ELSE Fzero

\* Matrix::height of a RowMajorMatrix
height(m) == IF m.width = 0 THEN 0 ELSE Len(m.values) \div m.width

\* VerticalPair::new(new_row(local), new_row(next)): a matrix of two rows
VerticalPair(local, next) == RowMajorMatrix(local \o next, Len(local))

AssertPanic(message, row_index, left, right) ==
    <<"panic", message, row_index, left, right>>

\* a builder for which every row but the first is a transition row
DebugConstraintBuilder_wrapping(i, main_, public_values_, height_) ==
    [row_index |-> i,
     main |-> main_,
     public_values |-> public_values_,
     is_first_row |-> from_bool(i = 0),
     is_last_row |-> from_bool(i = height_ - 1),
     is_transition |-> from_bool(TRUE)]

\* the DebugConstraintBuilder check_constraints makes for row i
DebugConstraintBuilder(i, main_, public_values_, height_) ==
    [row_index |-> i,
     main |-> main_,
     public_values |-> public_values_,
     is_first_row |-> from_bool(i = 0),
     is_last_row |-> from_bool(i = height_ - 1),
     is_transition |-> from_bool(i # height_ - 1)]

\* impl AirBuilder for DebugConstraintBuilder
debug_main(b) == b.main
debug_is_first_row(b) == b.is_first_row
debug_is_last_row(b) == b.is_last_row

debug_is_transition_window(b, size) ==
    IF size = 2 THEN Returned(b.is_transition)
    ELSE Aborted(Panic("only supports a window size of 2"), b, 0)

debug_is_transition(b) == debug_is_transition_window(b, 2).value
debug_public_values(b) == b.public_values

debug_assert_zero(b, x) ==
    IF x = Fzero THEN Returned(b)
    ELSE Aborted(AssertPanic("constraints had nonzero value on row",
                             b.row_index, x, Fzero), b, 0)

\* the assert_eq AirBuilder provides, were it not overridden
debug_assert_eq_provided(b, x, y) == debug_assert_zero(b, FSub(x, y))

\* an equality check that compares x with the negation of y
debug_assert_eq_negated(b, x, y) ==
    IF x = FSub(Fzero, y) THEN Returned(b)
    ELSE Aborted(AssertPanic("values didn't match on row", b.row_index, x, y),
                 b, 0)

debug_assert_eq(b, x, y) ==
    IF x = y THEN Returned(b)
    ELSE Aborted(AssertPanic("values didn't match on row", b.row_index, x, y),
                 b, 0)

\* the provided when_* of AirBuilder, on a DebugConstraintBuilder
debug_when_first_row(b) == when(b, debug_is_first_row(b))
debug_when_last_row(b) == when(b, debug_is_last_row(b))

\* a transition filter that is on on every row
debug_when_transition_always(b) == when(b, Fone)

debug_when_transition(b) == when(b, debug_is_transition(b))
debug_when_transition_window(b, size) ==
    LET c == debug_is_transition_window(b, size)
    IN IF c.panic # <<>> THEN c ELSE Returned(when(b, c.value))

\* a filter that forgets its condition
debug_filtered_assert_zero_unfiltered(fb, x) == debug_assert_zero(fb.inner, x)

\* FilteredAirBuilder over a DebugConstraintBuilder
debug_filtered_assert_zero(fb, x) ==
    debug_assert_zero(fb.inner, FMul(condition(fb), x))

\* a filter that hands an equality to the assert_eq of its builder
debug_filtered_assert_eq_inner(fb, x, y) ==
    IF condition(fb) = Fzero THEN Returned(fb.inner)
    ELSE debug_assert_eq(fb.inner, x, y)

debug_filtered_assert_eq(fb, x, y) == debug_filtered_assert_zero(fb, FSub(x, y))

RECURSIVE DebugTerm(_, _)
DebugTerm(b, t) ==
    CASE t[1] = "local" -> row_slice(debug_main(b), 0)[t[2] + 1]
      [] t[1] = "next" -> row_slice(debug_main(b), 1)[t[2] + 1]
      [] t[1] = "public" -> debug_public_values(b)[t[2] + 1]
      [] t[1] = "add" -> FAdd(DebugTerm(b, t[2]), DebugTerm(b, t[3]))
      [] t[1] = "mul" -> FMul(DebugTerm(b, t[2]), DebugTerm(b, t[3]))

\* the filter a statement asserts through, or the panic of its selector
DebugFilter(b, f) ==
    CASE f[1] = "when_first_row" -> Returned(debug_when_first_row(b))
      [] f[1] = "when_last_row" -> Returned(debug_when_last_row(b))
      [] f[1] = "when_transition" -> Returned(debug_when_transition(b))
      [] f[1] = "when_transition_window" -> debug_when_transition_window(b, f[2])

DebugStmt(b, st) ==
    IF st.when = Unfiltered
    THEN CASE st.name = "assert_zero" ->
                 debug_assert_zero(b, DebugTerm(b, st.args[1]))
           [] st.name = "assert_eq" ->
                 debug_assert_eq(b, DebugTerm(b, st.args[1]),
                                 DebugTerm(b, st.args[2]))
    ELSE LET f == DebugFilter(b, st.when)
             fb == f.value
         IN IF f.panic # <<>> THEN f
            ELSE CASE st.name = "assert_zero" ->
                        debug_filtered_assert_zero(fb, DebugTerm(b, st.args[1]))
                   [] st.name = "assert_eq" ->
                        debug_filtered_assert_eq(fb, DebugTerm(b, st.args[1]),
                                                 DebugTerm(b, st.args[2]))

\* air.eval(&mut builder), from statement k on: the first statement that
\* aborts ends it
RECURSIVE DebugEval(_, _, _)
DebugEval(stmts, b, k) ==
    IF k > Len(stmts) THEN Returned(b)
    ELSE LET r == DebugStmt(b, stmts[k])
         IN IF r.panic # <<>> THEN Aborted(r.panic, r.value, k)
            ELSE DebugEval(stmts, r.value, k + 1)

debug_eval(a, b) == DebugEval(a.eval, b, 1)

\* a builder whose next row after the last row is the last row again
row_builder_clamped(main_, public_values_, i) ==
    LET height_ == height(main_)
        i_next == IF i + 1 < height_ THEN i + 1 ELSE i
        local == row_slice(main_, i)
        next == row_slice(main_, i_next)
        pair == VerticalPair(local, next)
    IN DebugConstraintBuilder(i, pair, public_values_, height_)

\* the builder the loop of check_constraints makes for row i
row_builder(main_, public_values_, i) ==
    LET height_ == height(main_)
        i_next == (i + 1) % height_
        local == row_slice(main_, i)
        next == row_slice(main_, i_next)
        pair == VerticalPair(local, next)
    IN DebugConstraintBuilder(i, pair, public_values_, height_)

\* the body of the loop of check_constraints for row i
check_constraints_row(a, main_, public_values_, i) ==
    debug_eval(a, row_builder(main_, public_values_, i))

---------------------------------------------------------------------------
(* examples/fib_icicle_trace_sym.rs: the trace of the Fibonacci AIR *)

is_power_of_two(n) == \E k \in 0 .. n : 2 ^ k = n

\* the values of rows 0 .. n-1, one row after the other
RECURSIVE FibonacciValues(_, _, _)
FibonacciValues(a, b, n) ==
    IF n = 1 THEN <<F_from_u32(a), F_from_u32(b)>>
    ELSE LET v == FibonacciValues(a, b, n - 1)
             left == v[Len(v) - 1]
             right == v[Len(v)]
         IN v \o <<right, FAdd(left, right)>>

\* generate_trace_rows, for n a power of two (it asserts so)
generate_trace_rows(a, b, n) ==
    RowMajorMatrix(FibonacciValues(a, b, n), NUM_FIBONACCI_COLS)

---------------------------------------------------------------------------
(* utils.rs and the provided gadgets of AirBuilder in air.rs.  A generic   *)
(* function is modelled once for each type it is used at: F, the field of  *)
(* P elements; SymbolicExpression; and the Expr of a builder.              *)

\* a u32, kept as its two 16-bit halves <<high, low>>
U32(high, low) == <<high, low>>
TestBit(val, i) ==
    IF i < 16 THEN (val[2] \div (2 ^ i)) % 2 = 1
    ELSE (val[1] \div (2 ^ (i - 16))) % 2 = 1

\* u32_to_bits_le, FA = F and FA = SymbolicExpression
u32_to_bits_le(val) == [k \in 1 .. 32 |-> IF TestBit(val, k - 1) THEN Fone ELSE Fzero]
expr_u32_to_bits_le(val) == [k \in 1 .. 32 |-> IF TestBit(val, k - 1) THEN one ELSE zero]

\* utils::pack_bits_le, FA = F.  PackLoop(iter, n) is output after the
\* loop over iter.rev() has taken the elements from the last one down to
\* the n-th; output below is the one value it had reached before that.
RECURSIVE PackLoop(_, _)
PackLoop(iter, n) ==
    IF n > Len(iter) THEN Fzero
    ELSE CHOOSE next \in {FAdd(FAdd(output, output), iter[n]) :
                              output \in {PackLoop(iter, n + 1)}} : TRUE

\* a packing that forgets to reverse the iterator
RECURSIVE PackLoopForward(_, _)
PackLoopForward(iter, n) ==
    IF n = 0 THEN Fzero
    ELSE CHOOSE next \in {FAdd(FAdd(output, output), iter[n]) :
                              output \in {PackLoopForward(iter, n - 1)}} : TRUE

pack_bits_le_forward(iter) == PackLoopForward(iter, Len(iter))

pack_bits_le(iter) == PackLoop(iter, 1)

\* utils::pack_bits_le, FA = SymbolicExpression
RECURSIVE ExprPackLoop(_, _)
ExprPackLoop(iter, n) ==
    IF n > Len(iter) THEN zero
    ELSE CHOOSE next \in {add(add(output, output), iter[n]) :
                              output \in {ExprPackLoop(iter, n + 1)}} : TRUE

expr_pack_bits_le(iter) == ExprPackLoop(iter, 1)

\* AirBuilder::pack_bits_le, AB = SymbolicAirBuilder
RECURSIVE BuilderPackLoop(_, _, _)
BuilderPackLoop(b, iter, n) ==
    IF n > Len(iter) THEN builder_zero(b)
    ELSE LET two == builder_two(b)
         IN CHOOSE next \in {add(mul(output, two), iter[n]) :
                                 output \in {BuilderPackLoop(b, iter, n + 1)}} : TRUE

builder_pack_bits_le(b, iter) == BuilderPackLoop(b, iter, 1)

\* utils::xor, xor3 and andn, FA = F
xor(x, y) == FSub(FAdd(x, y), FMul(x, FAdd(y, y)))
xor3(x, y, z) == xor(x, xor(y, z))

\* an andn that negates the wrong operand
andn_swapped(x, y) == FMul(FSub(Fone, y), x)

andn(x, y) == FMul(FSub(Fone, x), y)

\* AirBuilder::xor, xor3 and andn, AB = SymbolicAirBuilder
builder_xor(b, x, y) ==
    LET two == builder_two(b) IN sub(add(x, y), mul(mul(two, x), y))
builder_xor3(b, x, y, z) == builder_xor(b, x, builder_xor(b, y, z))
builder_andn(b, x, y) == LET one_ == builder_one(b) IN mul(sub(one_, x), y)

\* AirBuilder::xor, xor3 and andn, AB = DebugConstraintBuilder
debug_two(b) == FAdd(Fone, Fone)
debug_xor(b, x, y) ==
    LET two == debug_two(b) IN FSub(FAdd(x, y), FMul(FMul(two, x), y))
debug_xor3(b, x, y, z) == debug_xor(b, x, debug_xor(b, y, z))
debug_andn(b, x, y) == FMul(FSub(Fone, x), y)

\* Fr, the scalar field of icicle_babybear the examples run over: the
\* integers modulo 2^31 - 2^27 + 1, computed without leaving 32 bits
FrModulus == 2013265921
FrAdd(a, b) == IF a >= FrModulus - b THEN a - (FrModulus - b) ELSE a + b
FrSub(a, b) == IF a >= b THEN a - b ELSE a + (FrModulus - b)

\* a * b by doubling over the smaller factor, half being a * (b / 2)
RECURSIVE FrMul(_, _)
FrMul(a, b) ==
    IF b = 0 THEN 0
    ELSE IF a < b THEN FrMul(b, a)
    ELSE CHOOSE prod \in
             {IF b % 2 = 1 THEN FrAdd(FrAdd(half, half), a)
                           ELSE FrAdd(half, half) :
                  half \in {FrMul(a, b \div 2)}} : TRUE

Fr_from_u32(val) == val % FrModulus
FrPow(self, exp) ==
    CASE exp = 0 -> 1
      [] exp = 1 -> self
      [] exp = 2 -> FrMul(self, self)

\* an add2 that leaves the high limbs out of acc
add2_low_limbs(builder_, a, b, c) ==
    LET two_16 == Constant(Fr_from_u32(2 ^ 16))
        two_32 == pow(two_16, 2)
        acc_16 == sub(sub(FromVar(a[1]), FromVar(b[1])), c[1])
        acc_ == acc_16
        first == assert_zero(builder_, mul(acc_, add(acc_, two_32)))
    IN assert_zero(first, mul(acc_16, add(acc_16, two_16)))

\* utils::add2, AB = SymbolicAirBuilder<Fr>: a and b are variables, c
\* expressions
add2(builder_, a, b, c) ==
    LET two_16 == Constant(Fr_from_u32(2 ^ 16))
        two_32 == pow(two_16, 2)
        acc_16 == sub(sub(FromVar(a[1]), FromVar(b[1])), c[1])
        acc_32 == sub(sub(FromVar(a[2]), FromVar(b[2])), c[2])
        acc_ == add(acc_16, mul(two_16, acc_32))
        first == assert_zero(builder_, mul(acc_, add(acc_, two_32)))
    IN assert_zero(first, mul(acc_16, add(acc_16, two_16)))

\* an add2 that does not allow for the carry out of the low limbs
debug_add2_carryless(builder_, a, b, c) ==
    LET two_16 == Fr_from_u32(2 ^ 16)
        two_32 == FrPow(two_16, 2)
        acc_16 == FrSub(FrSub(a[1], b[1]), c[1])
        acc_32 == FrSub(FrSub(a[2], b[2]), c[2])
        acc_ == FrAdd(acc_16, FrMul(two_16, acc_32))
        first == debug_assert_zero(builder_, FrMul(acc_, FrAdd(acc_, two_32)))
    IN IF first.panic # <<>> THEN Aborted(first.panic, builder_, 1)
       ELSE LET second == debug_assert_zero(first.value, acc_16)
            IN IF second.panic # <<>>
               THEN Aborted(second.panic, builder_, 2)
               ELSE second

\* utils::add2, AB = DebugConstraintBuilder<Fr>: the second assertion is
\* reached when the first one has not panicked
debug_add2(builder_, a, b, c) ==
    LET two_16 == Fr_from_u32(2 ^ 16)
        two_32 == FrPow(two_16, 2)
        acc_16 == FrSub(FrSub(a[1], b[1]), c[1])
        acc_32 == FrSub(FrSub(a[2], b[2]), c[2])
        acc_ == FrAdd(acc_16, FrMul(two_16, acc_32))
        first == debug_assert_zero(builder_, FrMul(acc_, FrAdd(acc_, two_32)))
    IN IF first.panic # <<>> THEN Aborted(first.panic, builder_, 1)
       ELSE LET second == debug_assert_zero(first.value,
                                            FrMul(acc_16, FrAdd(acc_16, two_16)))
            IN IF second.panic # <<>>
               THEN Aborted(second.panic, builder_, 2)
               ELSE second

\* utils::xor, FA = SymbolicExpression and FA = Fr
expr_xor(x, y) == sub(add(x, y), mul(x, add(y, y)))
fr_xor(x, y) == FrSub(FrAdd(x, y), FrMul(x, FrAdd(y, y)))

\* utils::pack_bits_le, FA = Fr
RECURSIVE FrPackLoop(_, _)
FrPackLoop(iter, n) ==
    IF n > Len(iter) THEN 0
    ELSE CHOOSE next \in {FrAdd(FrAdd(output, output), iter[n]) :
                              output \in {FrPackLoop(iter, n + 1)}} : TRUE

fr_pack_bits_le(iter) == FrPackLoop(iter, 1)

\* c.iter().for_each(|elem| builder.assert_bool(elem)) over the first n
\* elements of c, on a SymbolicAirBuilder
RECURSIVE AssertBoolEach(_, _, _)
AssertBoolEach(builder_, c, n) ==
    IF n = 0 THEN builder_
    ELSE CHOOSE next \in {assert_bool(checked, FromVar(c[n])) :
                              checked \in {AssertBoolEach(builder_, c, n - 1)}} : TRUE

\* an index into c that shifts the other way
ShiftedIndex_right(i, shift) == (32 + i + shift) % 32

\* (32 + i - shift) % 32, the index into c for the i-th bit of the result
ShiftedIndex(i, shift) == (32 + i - shift) % 32

\* utils::xor_32_shift, AB = SymbolicAirBuilder<Fr>
xor_32_shift(builder_, a, b, c, shift) ==
    LET checked == AssertBoolEach(builder_, c, Len(c))
        xor_shift_c_0_16 ==
            [k \in 1 .. 16 |->
                expr_xor(FromVar(b[k]),
                         FromVar(c[ShiftedIndex(k - 1, shift) + 1]))]
        sum_0_16 == expr_pack_bits_le(xor_shift_c_0_16)
        xor_shift_c_16_32 ==
            [k \in 1 .. 16 |->
                expr_xor(FromVar(b[16 + k]),
                         FromVar(c[ShiftedIndex((k - 1) + 16, shift) + 1]))]
        sum_16_32 == expr_pack_bits_le(xor_shift_c_16_32)
        first == assert_eq(checked, FromVar(a[1]), sum_0_16)
    IN assert_eq(first, FromVar(a[2]), sum_16_32)

\* the for_each of assert_bool on a DebugConstraintBuilder<Fr>: the result
\* of the n-th assertion, at the index of the first one that panicked
RECURSIVE DebugAssertBoolEach(_, _, _)
DebugAssertBoolEach(builder_, c, n) ==
    IF n = 0 THEN Returned(builder_)
    ELSE CHOOSE next \in
             {IF checked.panic # <<>> THEN checked
              ELSE LET r == debug_assert_zero(checked.value,
                                              FrMul(c[n], FrSub(c[n], 1)))
                   IN IF r.panic # <<>> THEN Aborted(r.panic, builder_, n)
                      ELSE r :
                  checked \in {DebugAssertBoolEach(builder_, c, n - 1)}} : TRUE

\* utils::xor_32_shift, AB = DebugConstraintBuilder<Fr>
debug_xor_32_shift(builder_, a, b, c, shift) ==
    LET checked == DebugAssertBoolEach(builder_, c, Len(c))
        xor_shift_c_0_16 ==
            [k \in 1 .. 16 |->
                fr_xor(b[k], c[ShiftedIndex(k - 1, shift) + 1])]
        sum_0_16 == fr_pack_bits_le(xor_shift_c_0_16)
        xor_shift_c_16_32 ==
            [k \in 1 .. 16 |->
                fr_xor(b[16 + k], c[ShiftedIndex((k - 1) + 16, shift) + 1])]
        sum_16_32 == fr_pack_bits_le(xor_shift_c_16_32)
    IN IF checked.panic # <<>> THEN checked
       ELSE LET first == debug_assert_eq(checked.value, a[1], sum_0_16)
            IN IF first.panic # <<>>
               THEN Aborted(first.panic, builder_, Len(c) + 1)
               ELSE LET second == debug_assert_eq(first.value, a[2], sum_16_32)
                    IN IF second.panic # <<>>
                       THEN Aborted(second.panic, builder_, Len(c) + 2)
                       ELSE second

---------------------------------------------------------------------------
(* virtual_column.rs: an affine function over the columns of a pair of    *)
(* rows                                                                    *)

\* enum PairCol
PairCol_Preprocessed(i) == <<"Preprocessed", i>>
PairCol_Main(i) == <<"Main", i>>

\* a get that reads the main row for both variants
get_main_only(self, preprocessed_, main_) == main_[self[2] + 1]

\* PairCol::get
get(self, preprocessed_, main_) ==
    CASE self[1] = "Preprocessed" -> preprocessed_[self[2] + 1]
      [] self[1] = "Main" -> main_[self[2] + 1]

\* struct VirtualPairCol and VirtualPairCol::new
VirtualPairCol(column_weights, constant_) ==
    [column_weights |-> column_weights, constant |-> constant_]

new_preprocessed(column_weights, constant_) ==
    VirtualPairCol([k \in DOMAIN column_weights |->
                       <<PairCol_Preprocessed(column_weights[k][1]),
                         column_weights[k][2]>>],
                   constant_)

new_main(column_weights, constant_) ==
    VirtualPairCol([k \in DOMAIN column_weights |->
                       <<PairCol_Main(column_weights[k][1]),
                         column_weights[k][2]>>],
                   constant_)

constant(x) == VirtualPairCol(<<>>, x)
single(column) == VirtualPairCol(<<<<column, Fone>>>>, Fzero)
single_preprocessed(column) == single(PairCol_Preprocessed(column))
single_main(column) == single(PairCol_Main(column))

sum_main(columns) ==
    new_main([k \in DOMAIN columns |-> <<columns[k], Fone>>], Fzero)

sum_preprocessed(columns) ==
    new_preprocessed([k \in DOMAIN columns |-> <<columns[k], Fone>>], Fzero)

diff_preprocessed(a_col, b_col) ==
    new_preprocessed(<<<<a_col, Fone>>, <<b_col, FSub(Fzero, Fone)>>>>, Fzero)

diff_main(a_col, b_col) ==
    new_main(<<<<a_col, Fone>>, <<b_col, FSub(Fzero, Fone)>>>>, Fzero)

\* the loop of apply over the first n column weights, Expr = Var = F
RECURSIVE ApplyLoop(_, _, _, _)
ApplyLoop(self, preprocessed_, main_, n) ==
    IF n = 0 THEN self.constant
    ELSE LET result == ApplyLoop(self, preprocessed_, main_, n - 1)
             column == self.column_weights[n][1]
             weight == self.column_weights[n][2]
         IN FAdd(result, FMul(get(column, preprocessed_, main_), weight))

\* VirtualPairCol::apply
apply(self, preprocessed_, main_) ==
    ApplyLoop(self, preprocessed_, main_, Len(self.column_weights))

---------------------------------------------------------------------------
(* ExprSpec: the expression algebra driven by a caller.  acc is the        *)
(* expression the caller holds, last the operation that produced it: its   *)
(* name, its expression operands in order, and its integer operand.        *)

\* one variable of every entry kind, and of both rows of the main window
Entries ==
    {Preprocessed(0), Main(0), Main(1), Permutation(0), Public, Challenge}
SymVars == {SymbolicVariable(en, 0) : en \in Entries}
Selectors == {IsFirstRow, IsLastRow, IsTransition}

MainVar == Variable(SymbolicVariable(Main(0), 0))

\* the expressions a caller starts from: From<F>, From<SymbolicVariable>
\* and the selector variants
Leaves ==
    {FromF(c) : c \in Felts} \cup {FromVar(v) : v \in SymVars} \cup Selectors

\* what the caller combines the held expression with
Operands(e) == {FromF(c) : c \in Felts} \cup {MainVar, e}
SeqOperands(e) == {one, e}
SeqsOver(S) == UNION {[1 .. n -> S] : n \in 0 .. MaxSeq}

Op(name, args, n) == [op |-> name, args |-> args, n |-> n]

NoParams == [preprocessed_width |-> 0, width |-> 0, num_public_values |-> 0]
NoBuilder == new(0, 0, 0)

\* no AIR is being analysed or checked
EmptyTrace == RowMajorMatrix(<<>>, NUM_FIBONACCI_COLS)
Idle == [op |-> "none", status |-> "idle", panic |-> <<>>, value |-> <<>>, at |-> 0]
NoRun ==
    /\ air = EmptyAir
    /\ trace = EmptyTrace
    /\ pis = <<>>
    /\ row = 0
    /\ outcome = Idle

ExprInit ==
    /\ acc \in Leaves
    /\ last = Op("leaf", <<>>, 0)
    /\ params = NoParams
    /\ builder = NoBuilder
    /\ calls = <<>>
    /\ NoRun

Produce(e, name, args, n) ==
    /\ Nodes(e) <= MaxNodes
    /\ acc' = e
    /\ last' = Op(name, args, n)
    /\ UNCHANGED <<params, builder, calls, air, trace, pis, row, outcome>>

ExprAdd ==
    \E o \in Operands(acc) :
        \/ Produce(add(acc, o), "add", <<acc, o>>, 0)
        \/ Produce(add(o, acc), "add", <<o, acc>>, 0)

ExprSub ==
    \E o \in Operands(acc) :
        \/ Produce(sub(acc, o), "sub", <<acc, o>>, 0)
        \/ Produce(sub(o, acc), "sub", <<o, acc>>, 0)

ExprMul ==
    \E o \in Operands(acc) :
        \/ Produce(mul(acc, o), "mul", <<acc, o>>, 0)
        \/ Produce(mul(o, acc), "mul", <<o, acc>>, 0)

ExprNeg == Produce(neg(acc), "neg", <<acc>>, 0)

ExprSqr == Produce(sqr(acc), "sqr", <<acc>>, 0)

ExprPow == \E exp \in PowExps : Produce(pow(acc, exp), "pow", <<acc>>, exp)

ExprSum ==
    \E s \in SeqsOver(SeqOperands(acc)) : Produce(sum(s), "sum", s, 0)

ExprProduct ==
    \E s \in SeqsOver(SeqOperands(acc)) : Produce(product(s), "product", s, 0)

ExprNext ==
    \/ ExprAdd
    \/ ExprSub
    \/ ExprMul
    \/ ExprNeg
    \/ ExprSqr
    \/ ExprPow
    \/ ExprSum
    \/ ExprProduct

ExprSpec == ExprInit /\ [][ExprNext]_vars

---------------------------------------------------------------------------
(* Properties of the expression algebra, checked under ExprSpec *)

\* C1: in every expression built by the constructors and operators, each
\* node's degree_multiple (stored in the operator nodes) equals the degree
\* recomputed from the structure: Constant and IsTransition 0, IsFirstRow
\* and IsLastRow 1, Variable 1 for Preprocessed/Main/Permutation and 0 for
\* Public/Challenge, Add/Sub/Neg the max of the children, Mul their sum.
DegreeContract ==
    \A s \in SubExprs(acc) : degree_multiple(s) = StructuralDegree(s)

\* a product of degree 2 or more with a sum, difference or negation of
\* degree 1 below it
DegreeContractWitness ==
    /\ Tag(acc) = "Mul"
    /\ degree_multiple(acc) >= 2
    /\ \E s \in SubExprs(acc) :
          Tag(s) \in {"Add", "Sub", "Neg"} /\ degree_multiple(s) = 1

BothConstant == Len(last.args) = 2 /\ IsConstant(last.args[1]) /\ IsConstant(last.args[2])

\* C4: on constant operands the operators fold: Constant(a) + Constant(b)
\* is Constant(a+b), Constant(a) - Constant(b) is Constant(a-b) (the field
\* element c with c + b = a), Constant(a) * Constant(b) is Constant(a*b),
\* and -Constant(a) is Constant(0-a) (the c with c + a = 0, so -Constant(0)
\* is Constant(0)); the result is never an operator node.
ConstantFolding ==
    /\ (last.op = "add" /\ BothConstant) =>
          acc = <<"Constant", (last.args[1][2] + last.args[2][2]) % P>>
    /\ (last.op = "sub" /\ BothConstant) =>
          /\ Tag(acc) = "Constant"
          /\ acc[2] \in Felts
          /\ (acc[2] + last.args[2][2]) % P = last.args[1][2]
    /\ (last.op = "mul" /\ BothConstant) =>
          acc = <<"Constant", (last.args[1][2] * last.args[2][2]) % P>>
    /\ (last.op = "neg" /\ IsConstant(last.args[1])) =>
          /\ Tag(acc) = "Constant"
          /\ acc[2] \in Felts
          /\ (acc[2] + last.args[1][2]) % P = 0
          /\ (last.args[1][2] = 0 => acc = <<"Constant", 0>>)

\* the negation of a nonzero constant has been folded
ConstantFoldingWitness ==
    /\ last.op = "neg"
    /\ IsConstant(last.args[1])
    /\ last.args[1][2] = 1
    /\ acc = <<"Constant", P - 1>>

\* C5: e + Constant(0) and Constant(0) + e are structurally e, for every
\* e, and no Add node is created.
AddZeroIdentity ==
    /\ (last.op = "add" /\ last.args[2] = Constant(0)) => acc = last.args[1]
    /\ (last.op = "add" /\ last.args[1] = Constant(0)) => acc = last.args[2]

\* C6: e * Constant(1) and Constant(1) * e are structurally e, for every
\* e, and no Mul node is created.
MulOneIdentity ==
    /\ (last.op = "mul" /\ last.args[2] = Constant(1)) => acc = last.args[1]
    /\ (last.op = "mul" /\ last.args[1] = Constant(1)) => acc = last.args[2]

\* C7: e * Constant(0) and Constant(0) * e are Constant(0), of degree 0,
\* for every e.
MulZeroAnnihilates ==
    (last.op = "mul" /\ (Constant(0) \in {last.args[1], last.args[2]})) =>
        (acc = Constant(0) /\ degree_multiple(acc) = 0)

\* C8: e - Constant(0) is structurally e, for every e, and no Sub node is
\* created.
SubZeroIdentity ==
    (last.op = "sub" /\ last.args[2] = Constant(0)) => acc = last.args[1]

---------------------------------------------------------------------------
(* Spec: an eval run against a SymbolicAirBuilder, as in                   *)
(* get_symbolic_constraints: the builder is made by new, then the AIR's    *)
(* eval makes assertion calls on it.  params are the arguments new was     *)
(* given; calls is the history of the assertion calls made: the method,    *)
(* the conditions of the filters it went through (outermost first) and     *)
(* its arguments.                                                          *)

Call(name, conds, args) == [name |-> name, conds |-> conds, args |-> args]

\* the expressions eval asserts on: a constant and the last cell of the
\* main window
EvalArgs(b) ==
    {builder_one(b)}
        \cup {Variable(main(b).values[i]) :
                i \in {Len(main(b).values)} \ {0}}

\* the right-hand side of the equalities eval asserts: the first public
\* value, or a constant when there is none
EvalRhs(b) ==
    IF public_values(b) = <<>>
    THEN {builder_one(b)}
    ELSE {Variable(public_values(b)[1])}

\* the selectors eval filters on, and the pairs it nests
EvalConds(b) == {is_first_row(b), builder_one(b)}
EvalCondPairs(b) ==
    {<<is_first_row(b), is_transition(b)>>, <<is_transition(b), builder_one(b)>>}

Init ==
    /\ acc = zero
    /\ last = Op("leaf", <<>>, 0)
    /\ \E pw \in 0 .. MaxPreprocessedWidth, w \in 0 .. MaxWidth,
          n \in 0 .. MaxPublicValues :
          /\ params = [preprocessed_width |-> pw, width |-> w,
                       num_public_values |-> n]
          /\ builder = new(pw, w, n)
    /\ calls = <<>>
    /\ NoRun

Emit(b, name, conds, args) ==
    /\ Len(calls) < MaxCalls
    /\ builder' = b
    /\ calls' = Append(calls, Call(name, conds, args))
    /\ UNCHANGED <<acc, last, params, air, trace, pis, row, outcome>>

AssertZero ==
    \E x \in EvalArgs(builder) :
        Emit(assert_zero(builder, x), "assert_zero", <<>>, <<x>>)

AssertOne ==
    \E x \in EvalArgs(builder) :
        Emit(assert_one(builder, x), "assert_one", <<>>, <<x>>)

AssertEq ==
    \E x \in EvalArgs(builder), y \in EvalRhs(builder) :
        Emit(assert_eq(builder, x, y), "assert_eq", <<>>, <<x, y>>)

AssertBool ==
    \E x \in EvalArgs(builder) :
        Emit(assert_bool(builder, x), "assert_bool", <<>>, <<x>>)

AssertTern ==
    \E x \in EvalArgs(builder) :
        Emit(assert_tern(builder, x), "assert_tern", <<>>, <<x>>)

WhenAssertZero ==
    \E c \in EvalConds(builder), x \in EvalArgs(builder) :
        Emit(filtered_assert_zero(when(builder, c), x),
             "assert_zero", <<c>>, <<x>>)

WhenAssertEq ==
    \E c \in EvalConds(builder), x \in EvalArgs(builder), y \in EvalRhs(builder) :
        Emit(filtered_assert_eq(when(builder, c), x, y),
             "assert_eq", <<c>>, <<x, y>>)

WhenAssertOne ==
    \E c \in EvalConds(builder), x \in EvalArgs(builder) :
        Emit(filtered_assert_one(when(builder, c), x),
             "assert_one", <<c>>, <<x>>)

WhenWhenAssertZero ==
    \E cs \in EvalCondPairs(builder), x \in EvalArgs(builder) :
        Emit(filtered_assert_zero(filtered_when(when(builder, cs[1]), cs[2]), x),
             "assert_zero", cs, <<x>>)

Next ==
    \/ AssertZero
    \/ AssertOne
    \/ AssertEq
    \/ AssertBool
    \/ AssertTern
    \/ WhenAssertZero
    \/ WhenAssertEq
    \/ WhenAssertOne
    \/ WhenWhenAssertZero

Spec == Init /\ [][Next]_vars

---------------------------------------------------------------------------
(* Properties of the builders, checked under Spec *)

\* what a call asserts to be zero, before any filter: assert_zero(x) is x,
\* assert_one(x) is x - 1, assert_eq(x, y) is x - y, assert_bool(x) is
\* x * (x - 1), assert_tern(x) is x * (x - 1) * (x - 2)
Asserted(c) ==
    CASE c.name = "assert_zero" -> c.args[1]
      [] c.name = "assert_one" -> sub(c.args[1], Constant(1))
      [] c.name = "assert_eq" -> sub(c.args[1], c.args[2])
      [] c.name = "assert_bool" ->
            mul(c.args[1], sub(c.args[1], Constant(1)))
      [] c.name = "assert_tern" ->
            mul(mul(c.args[1], sub(c.args[1], Constant(1))),
                sub(c.args[1], Constant(2 % P)))

\* the expression of a call made directly or through one filter: what it
\* asserts, times the selector of the filter
Expression(c) ==
    CASE Len(c.conds) = 0 -> Asserted(c)
      [] Len(c.conds) = 1 -> mul(c.conds[1], Asserted(c))

\* the product c * e as the node it is: the folded constant when both are
\* constants, else a Mul node with c as its left factor
IsProduct(r, c, e) ==
    IF IsConstant(c) /\ IsConstant(e)
    THEN r = <<"Constant", (c[2] * e[2]) % P>>
    ELSE Tag(r) = "Mul" /\ r[2] = c /\ r[3] = e

\* C2: b.when(c).assert_zero(e) passes exactly one constraint to b, the
\* product c * e with the condition as the left factor; a filtered
\* assert_eq(x, y) passes c * (x - y) and a filtered assert_one(x) passes
\* c * (x - 1): the k-th call, when made through one filter, has appended
\* exactly that expression as the k-th constraint.
FilterMultiplies ==
    /\ Len(constraints(builder)) = Len(calls)
    /\ \A k \in DOMAIN calls :
          Len(calls[k].conds) = 1 =>
              /\ calls[k].name \in {"assert_zero", "assert_eq", "assert_one"}
              /\ IsProduct(constraints(builder)[k], calls[k].conds[1],
                           Asserted(calls[k]))

\* a filtered equality between non-constants was recorded after another
\* constraint
FilterMultipliesWitness ==
    /\ Len(calls) = 2
    /\ calls[2].name = "assert_eq"
    /\ calls[2].conds = <<IsFirstRow>>
    /\ calls[2].args[1] = Variable(SymbolicVariable(Main(1), 1))
    /\ calls[2].args[2] = Variable(SymbolicVariable(Public, 0))
    /\ Tag(constraints(builder)[2]) = "Mul"

EmissionOrder ==
    /\ Len(constraints(builder)) = Len(calls)
    /\ \A k \in DOMAIN calls :
          Len(calls[k].conds) <= 1 =>
              constraints(builder)[k] = Expression(calls[k])

\* two calls with different expressions were made
EmissionOrderWitness ==
    /\ Len(calls) = 2
    /\ calls[1].name = "assert_tern"
    /\ calls[2].name = "assert_bool"
    /\ constraints(builder)[1] # constraints(builder)[2]

Cell(m, r, i) == m.values[r * m.width + i + 1]
Cells(m) == {m.values[k] : k \in DOMAIN m.values}

---------------------------------------------------------------------------
(* AirSpec: a caller analyses an AIR with get_symbolic_constraints,        *)
(* get_max_constraint_degree or get_log_quotient_degree, or checks a trace *)
(* against it with check_constraints.  air, trace and pis are the          *)
(* arguments; builder is the SymbolicAirBuilder of the analysis; row is    *)
(* the index i of the loop of check_constraints and calls the evals it has *)
(* made; outcome is how the call ended.                                     *)

\* the trace has up to 2^MaxLogHeight rows
MaxLogHeight == 3
\* the AIRs analysed have constraints of degree up to this
MaxDegree == 5
\* the transition windows asked for have sizes up to this
MaxWindow == 3

Heights == {2 ^ k : k \in 0 .. MaxLogHeight}
FirstCells == {0, 1}
WindowSizes == 1 .. MaxWindow

\* the AIRs that are analysed, and those that traces are checked against
CheckedAirs == {FibonacciAir, DirectAir} \cup {WindowAir(k) : k \in WindowSizes}
Airs == CheckedAirs \cup {EmptyAir} \cup {PowerAir(d) : d \in 0 .. MaxDegree}

\* a trace with the cell k of its values off by one; k = 0 leaves it alone
Corrupt(m, k) ==
    IF k = 0 THEN m ELSE [m EXCEPT !.values[k] = FAdd(@, Fone)]

\* test_trace passes pis.len() = 3 public values
NumPublicValues == 3

AirInit ==
    /\ acc = zero
    /\ last = Op("leaf", <<>>, 0)
    /\ calls = <<>>
    /\ row = 0
    /\ outcome = Idle
    /\ air \in Airs
    /\ params = [preprocessed_width |-> 0, width |-> air.width,
                 num_public_values |-> NumPublicValues]
    /\ builder = new(0, air.width, NumPublicValues)
    /\ IF air \in CheckedAirs
       THEN \E a \in FirstCells, b \in FirstCells, n \in Heights, x \in Felts :
               /\ \E k \in 0 .. (n * NUM_FIBONACCI_COLS) :
                     trace = Corrupt(generate_trace_rows(a, b, n), k)
               /\ pis \in {<<F_from_u32(a), F_from_u32(b), x>>,
                           <<F_from_u32(0), F_from_u32(1), x>>}
       ELSE /\ trace = EmptyTrace
            /\ pis = <<F_from_u32(0), F_from_u32(1), F_from_u32(0)>>

\* how a call ended
Ended(op, r) ==
    [op |-> op,
     status |-> IF r.panic # <<>> THEN "panicked" ELSE "returned",
     panic |-> r.panic,
     value |-> IF r.panic # <<>> THEN <<>> ELSE r.value,
     at |-> r.at]

Analyse(op, r) ==
    /\ outcome.status = "idle"
    /\ outcome' = Ended(op, r)
    /\ builder' = eval(air, new(params.preprocessed_width, air.width,
                                params.num_public_values)).value
    /\ UNCHANGED <<acc, last, params, calls, air, trace, pis, row>>

GetSymbolicConstraints ==
    Analyse("get_symbolic_constraints",
            get_symbolic_constraints(air, params.preprocessed_width,
                                     params.num_public_values))

GetMaxConstraintDegree ==
    Analyse("get_max_constraint_degree",
            get_max_constraint_degree(air, params.preprocessed_width,
                                      params.num_public_values))

GetLogQuotientDegree ==
    Analyse("get_log_quotient_degree",
            get_log_quotient_degree(air, params.preprocessed_width,
                                    params.num_public_values))

Checking ==
    \/ outcome.status = "idle"
    \/ outcome.op = "check_constraints" /\ outcome.status = "running"

\* one pass of (0..height).for_each: eval on the builder of row i
CheckConstraintsRow ==
    /\ Checking
    /\ row < height(trace)
    /\ LET r == check_constraints_row(air, trace, pis, row)
       IN /\ calls' = Append(calls, Call("eval", <<>>, <<row>>))
          /\ IF r.panic # <<>>
             THEN /\ outcome' = Ended("check_constraints", r)
                  /\ row' = row
             ELSE /\ outcome' = [op |-> "check_constraints", status |-> "running",
                                 panic |-> <<>>, value |-> <<>>, at |-> 0]
                  /\ row' = row + 1
    /\ UNCHANGED <<acc, last, params, builder, air, trace, pis>>

\* the loop is over: check_constraints returns
CheckConstraintsReturn ==
    /\ Checking
    /\ row = height(trace)
    /\ outcome' = Ended("check_constraints", Returned(<<>>))
    /\ UNCHANGED <<acc, last, params, builder, calls, air, trace, pis, row>>

AirNext ==
    \/ GetSymbolicConstraints
    \/ GetMaxConstraintDegree
    \/ GetLogQuotientDegree
    \/ CheckConstraintsRow
    \/ CheckConstraintsReturn

AirSpec == AirInit /\ [][AirNext]_vars

---------------------------------------------------------------------------
(* Properties of the analysis and of check_constraints, checked under     *)
(* AirSpec                                                                 *)

\* what the statements of the AIR say about row r of the trace, read off
\* the trace: the value of a term, with the row after the last being row 0
RECURSIVE TermValue(_, _)
TermValue(t, r) ==
    CASE t[1] = "local" -> Cell(trace, r, t[2])
      [] t[1] = "next" -> Cell(trace, (r + 1) % height(trace), t[2])
      [] t[1] = "public" -> pis[t[2] + 1]
      [] t[1] = "add" -> (TermValue(t[2], r) + TermValue(t[3], r)) % P
      [] t[1] = "mul" -> (TermValue(t[2], r) * TermValue(t[3], r)) % P

\* whether the filter of a statement is on at row r
FilterOn(f, r) ==
    CASE f[1] = "none" -> TRUE
      [] f[1] = "when_first_row" -> r = 0
      [] f[1] = "when_last_row" -> r = height(trace) - 1
      [] f[1] \in {"when_transition", "when_transition_window"} ->
            r # height(trace) - 1

Violated(st, r) ==
    /\ FilterOn(st.when, r)
    /\ CASE st.name = "assert_zero" -> TermValue(st.args[1], r) # 0
         [] st.name = "assert_eq" ->
               TermValue(st.args[1], r) # TermValue(st.args[2], r)

ViolatedAt(r) == {k \in DOMAIN air.eval : Violated(air.eval[k], r)}
BadRows == {r \in 0 .. (height(trace) - 1) : ViolatedAt(r) # {}}
MinOf(S) == CHOOSE m \in S : \A n \in S : m <= n

\* the AIR asks for no transition window but of size 2
WindowsSupported ==
    \A k \in DOMAIN air.eval :
        air.eval[k].when[1] = "when_transition_window" => air.eval[k].when[2] = 2

CheckPanicked == outcome.op = "check_constraints" /\ outcome.status = "panicked"
CheckReturned == outcome.op = "check_constraints" /\ outcome.status = "returned"

\* C11: check_constraints evaluates the rows in increasing order 0, 1, ...,
\* height-1, each once, and aborts on the first violation: a panic reports
\* the smallest row that has a violated assertion, raised by the first
\* violated assertion of that row in emission order, and no later row has
\* been evaluated; it returns only when no assertion is violated on any
\* row, after evaluating every row.
RowOrder ==
    WindowsSupported =>
        /\ \A j \in DOMAIN calls : calls[j] = Call("eval", <<>>, <<j - 1>>)
        /\ Len(calls) <= height(trace)
        /\ CheckPanicked =>
              /\ BadRows # {}
              /\ outcome.panic[3] = MinOf(BadRows)
              /\ outcome.at = MinOf(ViolatedAt(MinOf(BadRows)))
              /\ Len(calls) = MinOf(BadRows) + 1
        /\ CheckReturned =>
              /\ BadRows = {}
              /\ Len(calls) = height(trace)

\* a trace of the Fibonacci AIR with violations on two rows was rejected
\* at the earlier one, after the rows before it had passed
RowOrderWitness ==
    /\ air = FibonacciAir
    /\ CheckPanicked
    /\ outcome.panic[3] = 5
    /\ outcome.at = 4
    /\ {5, 6} \subseteq BadRows
    /\ Len(calls) = 6

SymbolicConstraintsReturned ==
    outcome.op = "get_symbolic_constraints" /\ outcome.status = "returned"

\* C12, as claimed: for the Fibonacci AIR (width 2, three public values,
\* two first-row equalities, two transition equalities and one last-row
\* equality) get_symbolic_constraints returns exactly 4 constraints and the
\* maximum degree_multiple over them is 1.
FibonacciFourConstraints ==
    (air = FibonacciAir /\ SymbolicConstraintsReturned) =>
        /\ Len(outcome.value) = 4
        /\ \A k \in DOMAIN outcome.value : degree_multiple(outcome.value[k]) <= 1
        /\ \E k \in DOMAIN outcome.value : degree_multiple(outcome.value[k]) = 1

\* C12, amended: for the Fibonacci AIR get_symbolic_constraints returns
\* exactly 5 constraints, one for each equality of its eval in the order
\* written, and the maximum degree_multiple over them is 2: the first-row
\* and last-row equalities have degree 2, the transition equalities
\* degree 1.
FibonacciConstraints ==
    (air = FibonacciAir /\ SymbolicConstraintsReturned) =>
        /\ Len(outcome.value) = 5
        /\ [k \in 1 .. 5 |-> degree_multiple(outcome.value[k])] = <<2, 2, 1, 1, 2>>
        /\ \A k \in DOMAIN outcome.value : degree_multiple(outcome.value[k]) <= 2
        /\ [k \in 1 .. 5 |-> outcome.value[k][2]] =
              <<IsFirstRow, IsFirstRow, IsTransition, IsTransition, IsLastRow>>

\* the constraints of the Fibonacci AIR have been returned, the last one
\* the last-row equality with the third public value
FibonacciConstraintsWitness ==
    /\ air = FibonacciAir
    /\ SymbolicConstraintsReturned
    /\ outcome.value[Len(outcome.value)] =
          <<"Mul", IsLastRow,
            <<"Sub", Variable(SymbolicVariable(Main(0), 1)),
                     Variable(SymbolicVariable(Public, 2)), 1>>, 2>>

\* the trace was generated by the Fibonacci recurrence from the first row
\* (a, b), has n rows, and the public values start with a, b
FibonacciRun(a, b, n) ==
    /\ air = FibonacciAir
    /\ trace = generate_trace_rows(a, b, n)
    /\ pis[1] = F_from_u32(a)
    /\ pis[2] = F_from_u32(b)

\* the rows (0,1), (1,1), (1,2), (2,3), (3,5), (5,8), (8,13), (13,21)
EightRows == <<0, 1, 1, 1, 1, 2, 2, 3, 3, 5, 5, 8, 8, 13, 13, 21>>

\* C13: for the Fibonacci AIR and a trace of height n generated by the
\* Fibonacci recurrence from the first row (a, b), check_constraints with
\* the public values [a, b, x] returns only when x is the right cell of the
\* last row and panics only when x differs, reporting row n-1; for n = 8,
\* a = 0, b = 1 the trace is (0,1), (1,1), (1,2), (2,3), (3,5), (5,8),
\* (8,13), (13,21), which passes with x = 21 and panics at row 7 with
\* x = 22.
FibonacciLastRow ==
    \A a \in FirstCells, b \in FirstCells, n \in Heights :
        FibonacciRun(a, b, n) =>
            /\ CheckReturned => pis[3] = Cell(trace, n - 1, 1)
            /\ CheckPanicked =>
                  /\ pis[3] # Cell(trace, n - 1, 1)
                  /\ outcome.panic[3] = n - 1
                  /\ Len(calls) = n
            /\ (n = 8 /\ a = 0 /\ b = 1) =>
                  /\ trace.values = [k \in 1 .. 16 |-> EightRows[k] % P]
                  /\ pis[3] = 21 % P => ~CheckPanicked
                  /\ pis[3] = 22 % P =>
                        /\ ~CheckReturned
                        /\ CheckPanicked => outcome.panic[3] = 7

\* the trace of 8 rows from (0, 1) was rejected at row 7 for x = 22
FibonacciLastRowWitness ==
    /\ FibonacciRun(0, 1, 8)
    /\ pis[3] = 22 % P
    /\ CheckPanicked
    /\ outcome.panic[3] = 7

\* the Fibonacci AIR is checked with the public values [0, 1, x] against a
\* trace whose first row is (1, 1), and the first row has been evaluated
MismatchedFirstRow ==
    /\ air = FibonacciAir
    /\ pis[1] = 0
    /\ pis[2] = 1
    /\ height(trace) >= 1
    /\ Cell(trace, 0, 0) = 1
    /\ Cell(trace, 0, 1) = 1
    /\ outcome.op = "check_constraints"

\* C14, as claimed: for the Fibonacci AIR with public values [0, 1, x] and
\* a trace whose first row is (1, 1), check_constraints fails at row 0 and
\* the failure message is "values didn't match on row 0", the message of
\* assert_eq carrying both unequal values, not the message of a nonzero
\* constraint.
FirstRowValuesDidntMatch ==
    MismatchedFirstRow =>
        /\ CheckPanicked
        /\ outcome.panic = AssertPanic("values didn't match on row", 0, 1, 0)

\* C14, amended: for the Fibonacci AIR with public values [0, 1, x] and a
\* trace whose first row is (1, 1), check_constraints fails at row 0, on
\* the first assertion of eval, and the failure message is "constraints
\* had nonzero value on row 0", the message of assert_zero: the filtered
\* assert_eq hands is_first_row * (local.left - a) = 1 to the assert_zero
\* of the builder, whose assert_eq is not called.
FirstRowNonzeroConstraint ==
    MismatchedFirstRow =>
        /\ CheckPanicked
        /\ outcome.panic =
              AssertPanic("constraints had nonzero value on row", 0, 1, 0)
        /\ outcome.at = 1
        /\ Len(calls) = 1

\* the check of a trace of four rows that starts with (1, 1) has failed
FirstRowNonzeroConstraintWitness ==
    /\ MismatchedFirstRow
    /\ height(trace) = 4
    /\ CheckPanicked
    /\ outcome.panic[2] = "constraints had nonzero value on row"

MaxDegreeReturned ==
    outcome.op = "get_max_constraint_degree" /\ outcome.status = "returned"

\* C15, as claimed: get_max_constraint_degree returns the maximum of
\* degree_multiple over all constraints the AIR emits, lower-bounded at 2:
\* its result is never less than 2, also for an AIR that emits no
\* constraints or only constraints of degree 0 or 1.
MaxDegreeAtLeastTwo ==
    MaxDegreeReturned =>
        /\ outcome.value >= 2
        /\ \A k \in DOMAIN constraints(builder) :
              StructuralDegree(constraints(builder)[k]) <= outcome.value

\* C15, amended: get_max_constraint_degree returns the maximum of
\* degree_multiple over all constraints the AIR emits, and 0 for an AIR
\* that emits no constraints; it has no lower bound of 2 (it is 0 or 1 for
\* an AIR with only constraints of degree 0 or 1): the padding to 2 is made
\* by get_log_quotient_degree.
MaxDegreeNotPadded ==
    MaxDegreeReturned =>
        /\ constraints(builder) = <<>> => outcome.value = 0
        /\ constraints(builder) # <<>> =>
              \E k \in DOMAIN constraints(builder) :
                  StructuralDegree(constraints(builder)[k]) = outcome.value
        /\ \A k \in DOMAIN constraints(builder) :
              StructuralDegree(constraints(builder)[k]) <= outcome.value
        /\ \A d \in 0 .. MaxDegree : air = PowerAir(d) => outcome.value = d

\* the maximum degree of an AIR with no constraints was returned as 0
MaxDegreeNotPaddedWitness ==
    /\ MaxDegreeReturned
    /\ air = EmptyAir
    /\ constraints(builder) = <<>>
    /\ outcome.value = 0

LogQuotientDegreeReturned ==
    outcome.op = "get_log_quotient_degree" /\ outcome.status = "returned"

\* the maximum constraint degree d of the AIR analysed, read off the
\* structure of the constraints: 0 when there are none
ConstraintDegree ==
    IF constraints(builder) = <<>> THEN 0
    ELSE MaxOf({StructuralDegree(constraints(builder)[k]) :
                  k \in DOMAIN constraints(builder)})

\* the least k with 2^k >= n
Log2Ceil(n) == CHOOSE k \in 0 .. n : 2 ^ k >= n /\ (k = 0 \/ 2 ^ (k - 1) < n)

\* C16: for every AIR with maximum constraint degree d,
\* get_log_quotient_degree returns log2_ceil(max(d, 2) - 1), the least k
\* with 2^k >= max(d, 2) - 1: 0 for d in {0, 1, 2}, 1 for d = 3, 2 for
\* d = 4 and d = 5.
LogQuotientDegree ==
    LogQuotientDegreeReturned =>
        LET d == ConstraintDegree
        IN /\ outcome.value = Log2Ceil(Max(d, 2) - 1)
           /\ d \in {0, 1, 2} => outcome.value = 0
           /\ d = 3 => outcome.value = 1
           /\ d \in {4, 5} => outcome.value = 2

\* the log quotient degree of an AIR of degree 5 was returned
LogQuotientDegreeWitness ==
    /\ LogQuotientDegreeReturned
    /\ air = PowerAir(5)
    /\ ConstraintDegree = 5
    /\ outcome.value = 2

Analysed ==
    outcome.op \in {"get_symbolic_constraints", "get_max_constraint_degree",
                    "get_log_quotient_degree"}

\* the builder check_constraints makes for row i of the trace
RowBuilder(i) == row_builder(trace, pis, i)

\* C17: in both SymbolicAirBuilder and DebugConstraintBuilder,
\* is_transition_window(k) panics for every k other than 2 and returns the
\* transition selector for k = 2, is_transition() is
\* is_transition_window(2), and when_transition_window(k) with k other
\* than 2 aborts before any constraint is emitted: the constraint list is
\* as the assertions before it left it, and no later assertion is made.
WindowOfTwoOnly ==
    /\ \A k \in WindowSizes :
          /\ k # 2 =>
                is_transition_window(builder, k) =
                    <<"panic", "uni-stark only supports a window size of 2">>
          /\ k = 2 => is_transition_window(builder, k) = <<"IsTransition">>
    /\ is_transition(builder) = is_transition_window(builder, 2)
    /\ \A k \in WindowSizes, i \in 0 .. (height(trace) - 1) :
          /\ k # 2 =>
                debug_is_transition_window(RowBuilder(i), k).panic =
                    <<"panic", "only supports a window size of 2">>
          /\ k = 2 =>
                /\ debug_is_transition_window(RowBuilder(i), k).panic = <<>>
                /\ debug_is_transition_window(RowBuilder(i), k).value =
                      (IF i = height(trace) - 1 THEN 0 ELSE 1)
          /\ debug_is_transition(RowBuilder(i)) =
                debug_is_transition_window(RowBuilder(i), 2).value
    /\ \A k \in WindowSizes :
          (air = WindowAir(k) /\ Analysed) =>
              IF k = 2
              THEN /\ outcome.status = "returned"
                   /\ Len(constraints(builder)) = 3
                   /\ constraints(builder)[2][2] = <<"IsTransition">>
              ELSE /\ outcome.status = "panicked"
                   /\ outcome.panic =
                         <<"panic", "uni-stark only supports a window size of 2">>
                   /\ outcome.at = 2
                   /\ constraints(builder) =
                         <<Variable(SymbolicVariable(Main(0), 0))>>
    /\ \A k \in WindowSizes \ {2} :
          (air = WindowAir(k) /\ outcome.op = "check_constraints") =>
              /\ CheckPanicked
              /\ Len(calls) = 1
              /\ IF Cell(trace, 0, 0) # 0
                 THEN outcome.at = 1
                 ELSE /\ outcome.at = 2
                      /\ outcome.panic =
                            <<"panic", "only supports a window size of 2">>

\* the analysis of an AIR that asks for a window of size 3 has aborted at
\* its second assertion, with the constraint of the first one recorded
WindowOfTwoOnlyWitness ==
    /\ air = WindowAir(3)
    /\ outcome.op = "get_symbolic_constraints"
    /\ outcome.status = "panicked"
    /\ outcome.at = 2
    /\ Len(constraints(builder)) = 1

---------------------------------------------------------------------------
(* GadgetSpec: a caller applies one gadget of utils.rs or of AirBuilder to *)
(* arguments.  last is the call and its arguments, outcome.value what it   *)
(* returned at each type it was applied at, builder the SymbolicAirBuilder *)
(* of the calls that take one.                                              *)

\* the 16-bit halves the u32 arguments are made of
HalfSamples == {0, 1, 2, 43690, 65535}

\* the 16-bit limbs add2 is applied to
LimbSamples == {0, 1, 32768, 65535}
Limb(v) == v % (2 ^ 16)

\* the columns of a row that holds the limbs of a, b and c
Add2Columns == <<"a0", "a1", "b0", "b1", "c0", "c1">>

\* the columns of a row that holds the limbs of a and the bits of b and c
XorShiftColumns ==
    <<"a0", "a1">> \o [k \in 1 .. 32 |-> "b"] \o [k \in 1 .. 32 |-> "c"]

\* the u32 values whose bits b and c hold, and the shifts
WordSamples == {U32(0, 1), U32(43690, 21845), U32(65535, 65535)}
ShiftSamples == {0, 1, 16, 17, 32}
BitsOf(val) == [k \in 1 .. 32 |-> IF TestBit(val, k - 1) THEN 1 ELSE 0]

\* bit i of b XOR (c shifted left by shift, indices wrapping modulo 32),
\* and the 16-bit limb made of the bits from the i-th on
ShiftedXorBit(b, c, shift, i) ==
    IF b[i + 1] # c[((i - shift) % 32) + 1] THEN 1 ELSE 0
ShiftedXorLimb(b, c, shift, i) ==
    LET bit(k) == ShiftedXorBit(b, c, shift, i + k)
    IN bit(0) + 2 * bit(1) + 4 * bit(2) + 8 * bit(3)
       + 16 * (bit(4) + 2 * bit(5) + 4 * bit(6) + 8 * bit(7))
       + 256 * (bit(8) + 2 * bit(9) + 4 * bit(10) + 8 * bit(11))
       + 4096 * (bit(12) + 2 * bit(13) + 4 * bit(14) + 8 * bit(15))

\* the builders the gadgets are called on: one over the columns of add2,
\* one over those of xor_32_shift
GadgetParams ==
    {[preprocessed_width |-> 0, width |-> Len(columns), num_public_values |-> 0] :
        columns \in {Add2Columns, XorShiftColumns}}
GadgetDebugBuilder == DebugConstraintBuilder(0, VerticalPair(<<>>, <<>>), <<>>, 1)

GadgetInit ==
    /\ acc = zero
    /\ last = Op("leaf", <<>>, 0)
    /\ params \in GadgetParams
    /\ builder = new(params.preprocessed_width, params.width,
                     params.num_public_values)
    /\ calls = <<>>
    /\ NoRun

Apply(name, args, value) ==
    /\ outcome.status = "idle"
    /\ last' = Op(name, args, 0)
    /\ outcome' = Ended(name, Returned(value))
    /\ UNCHANGED <<acc, params, builder, calls, air, trace, pis, row>>

PackBits ==
    \E high \in HalfSamples, low \in HalfSamples :
        LET val == U32(high, low)
        IN Apply("pack_bits_le", <<val>>,
                 [field |-> pack_bits_le(u32_to_bits_le(val)),
                  expr |-> expr_pack_bits_le(expr_u32_to_bits_le(val)),
                  builder |-> builder_pack_bits_le(builder, expr_u32_to_bits_le(val))])

Xor ==
    \E x \in Felts, y \in Felts :
        Apply("xor", <<x, y>>,
              [field |-> xor(x, y),
               builder |-> builder_xor(builder, FromF(x), FromF(y)),
               debug |-> debug_xor(GadgetDebugBuilder, x, y)])

Xor3 ==
    \E x \in Felts, y \in Felts, z \in Felts :
        Apply("xor3", <<x, y, z>>,
              [field |-> xor3(x, y, z),
               builder |-> builder_xor3(builder, FromF(x), FromF(y), FromF(z)),
               debug |-> debug_xor3(GadgetDebugBuilder, x, y, z)])

Andn ==
    \E x \in Felts, y \in Felts :
        Apply("andn", <<x, y>>,
              [field |-> andn(x, y),
               builder |-> builder_andn(builder, FromF(x), FromF(y)),
               debug |-> debug_andn(GadgetDebugBuilder, x, y)])

\* add2 on the limbs of a row, recorded by a SymbolicAirBuilder and checked
\* by a DebugConstraintBuilder.  The limbs of a are samples, or the limbs
\* of a sum with or without a carry.
Add2 ==
    \E b0 \in LimbSamples, b1 \in LimbSamples,
       c0 \in LimbSamples, c1 \in LimbSamples :
        \E a0 \in LimbSamples \cup {Limb(b0 + c0)},
           a1 \in LimbSamples \cup {Limb(b1 + c1), Limb(b1 + c1 + 1)} :
            LET local == <<a0, a1, b0, b1, c0, c1>>
                vars_ == row_slice(main(builder), 0)
                debug == DebugConstraintBuilder(0, VerticalPair(local, local),
                                                <<>>, 1)
                values == row_slice(debug_main(debug), 0)
            IN /\ outcome.status = "idle"
               /\ params.width = Len(Add2Columns)
               /\ last' = Op("add2", local, 0)
               /\ builder' = add2(builder, SubSeq(vars_, 1, 2),
                                  SubSeq(vars_, 3, 4),
                                  <<FromVar(vars_[5]), FromVar(vars_[6])>>)
               /\ outcome' = Ended("add2",
                                   debug_add2(debug, SubSeq(values, 1, 2),
                                              SubSeq(values, 3, 4),
                                              SubSeq(values, 5, 6)))
               /\ UNCHANGED <<acc, params, calls, air, trace, pis, row>>

\* xor_32_shift on a row of two limbs and the bits of two words, recorded
\* by a SymbolicAirBuilder and checked by a DebugConstraintBuilder.  The
\* limbs of a are those of the shifted xor, or one of them is off by a bit.
XorShift ==
    \E bw \in WordSamples, cw \in WordSamples, shift \in ShiftSamples :
        LET b == BitsOf(bw)
            c == BitsOf(cw)
            low == ShiftedXorLimb(b, c, shift, 0)
            high == ShiftedXorLimb(b, c, shift, 16)
        IN \E a \in {<<low, high>>, <<(low + 1) % (2 ^ 16), high>>,
                      <<low, (high + 2 ^ 15) % (2 ^ 16)>>} :
            LET local == a \o b \o c
                vars_ == row_slice(main(builder), 0)
                debug == DebugConstraintBuilder(0, VerticalPair(local, local),
                                                <<>>, 1)
                values == row_slice(debug_main(debug), 0)
            IN /\ outcome.status = "idle"
               /\ params.width = Len(XorShiftColumns)
               /\ last' = Op("xor_32_shift", <<local, shift>>, 0)
               /\ builder' = xor_32_shift(builder, SubSeq(vars_, 1, 2),
                                          SubSeq(vars_, 3, 34),
                                          SubSeq(vars_, 35, 66), shift)
               /\ outcome' = Ended("xor_32_shift",
                                   debug_xor_32_shift(debug,
                                                      SubSeq(values, 1, 2),
                                                      SubSeq(values, 3, 34),
                                                      SubSeq(values, 35, 66),
                                                      shift))
               /\ UNCHANGED <<acc, params, calls, air, trace, pis, row>>

GadgetNext ==
    \/ PackBits
    \/ Xor
    \/ Xor3
    \/ Andn
    \/ Add2
    \/ XorShift

GadgetSpec == GadgetInit /\ [][GadgetNext]_vars

---------------------------------------------------------------------------
(* Properties of the gadgets, checked under GadgetSpec *)

\* 2^i mod P, and the sum of b_i * 2^i mod P over the bits from the i-th on
RECURSIVE Pow2ModP(_)
Pow2ModP(i) == IF i = 0 THEN 1 % P ELSE (2 * Pow2ModP(i - 1)) % P

RECURSIVE WeightedSum(_, _)
WeightedSum(bits, i) ==
    IF i > Len(bits) THEN 0
    ELSE (bits[i] * Pow2ModP(i - 1) + WeightedSum(bits, i + 1)) % P

\* v mod P, for v = high * 2^16 + low
U32ModP(val) == ((val[1] % P) * (65536 % P) + (val[2] % P)) % P

\* C18: for every v: u32, pack_bits_le applied to u32_to_bits_le(v) yields
\* v mod P, the first element of the input being the least-significant bit
\* (the result is the sum of b_i * 2^i); on SymbolicExpression inputs the
\* result is the single node Constant(v mod P).
BitsRoundTrip ==
    last.op = "pack_bits_le" =>
        LET val == last.args[1]
        IN /\ outcome.value.field = U32ModP(val)
           /\ outcome.value.field = WeightedSum(u32_to_bits_le(val), 1)
           /\ outcome.value.expr = <<"Constant", U32ModP(val)>>
           /\ outcome.value.builder = <<"Constant", U32ModP(val)>>

\* the bits of 0xAAAA0001 were packed
BitsRoundTripWitness ==
    /\ last.op = "pack_bits_le"
    /\ last.args[1] = <<43690, 1>>
    /\ outcome.value.expr = <<"Constant", outcome.value.field>>

Bits == {0, 1}
BoolXor(x, y) == IF x # y THEN 1 ELSE 0
BoolAndNot(x, y) == IF x = 0 /\ y = 1 THEN 1 ELSE 0

\* the call returned the bit r at every type
Gives(r) ==
    /\ r \in Bits
    /\ outcome.value.field = r
    /\ outcome.value.debug = r
    /\ outcome.value.builder = <<"Constant", r>>

\* C19: on inputs in {0, 1} the polynomial gadgets compute their Boolean
\* functions and return a value in {0, 1}: xor(x, y) = x + y - 2xy is
\* x XOR y, xor3(x, y, z) = xor(x, xor(y, z)) is x XOR y XOR z, and
\* andn(x, y) = (1 - x) * y is (NOT x) AND y, for every combination of
\* inputs.
BooleanGadgets ==
    (last.op \in {"xor", "xor3", "andn"} /\ Range(last.args) \subseteq Bits) =>
        /\ last.op = "xor" => Gives(BoolXor(last.args[1], last.args[2]))
        /\ last.op = "xor3" =>
              Gives(BoolXor(last.args[1], BoolXor(last.args[2], last.args[3])))
        /\ last.op = "andn" => Gives(BoolAndNot(last.args[1], last.args[2]))

\* the xor of three ones was computed
BooleanGadgetsWitness ==
    /\ last.op = "xor3"
    /\ last.args = <<1, 1, 1>>
    /\ outcome.value.field = 1


\* the value in Fr of an expression over the variables of the main row, on
\* the row local
RECURSIVE FrEval(_, _)
FrEval(e, local) ==
    CASE Tag(e) = "Variable" -> local[e[2].index + 1]
      [] Tag(e) = "Constant" -> e[2]
      [] Tag(e) = "Add" /\ e[2] = e[3] ->
            CHOOSE double \in {FrAdd(v, v) : v \in {FrEval(e[2], local)}} : TRUE
      [] Tag(e) = "Add" /\ e[2] # e[3] ->
            FrAdd(FrEval(e[2], local), FrEval(e[3], local))
      [] Tag(e) = "Sub" -> FrSub(FrEval(e[2], local), FrEval(e[3], local))
      [] Tag(e) = "Mul" -> FrMul(FrEval(e[2], local), FrEval(e[3], local))

\* the row holds limbs of a, b and c with a = (b + c) mod 2^32, the carry
\* threaded from the low limb
IsSum(local) ==
    LET a0 == local[1]
        a1 == local[2]
        b0 == local[3]
        b1 == local[4]
        c0 == local[5]
        c1 == local[6]
        carry == (b0 + c0) \div (2 ^ 16)
    IN /\ a0 = (b0 + c0) % (2 ^ 16)
       /\ a1 = (b1 + c1 + carry) % (2 ^ 16)

\* the two polynomials of the claim over the variables of the row, 2^32
\* being the product of 2^16 with itself
Add2Var(i) == Variable(SymbolicVariable(Main(0), i))
Add2Acc16 == Sub(Sub(Add2Var(0), Add2Var(2), 1), Add2Var(4), 1)
Add2Acc32 == Sub(Sub(Add2Var(1), Add2Var(3), 1), Add2Var(5), 1)
Add2Two16 == Constant(2 ^ 16)
Add2Two32 == Mul(Add2Two16, Add2Two16, 0)
Add2Acc == Add(Add2Acc16, Mul(Add2Two16, Add2Acc32, 1), 1)
Add2Constraints ==
    <<Mul(Add2Acc, Add(Add2Acc, Add2Two32, 1), 2),
      Mul(Add2Acc16, Add(Add2Acc16, Add2Two16, 1), 2)>>

\* C20: over a field of characteristic above 2^17, for all 16-bit limbs b0,
\* b1, c0, c1 and a0, a1 the limbs of (b + c) mod 2^32 (carry threaded from
\* the low limb), add2 emits exactly two constraints, acc * (acc + 2^32) and
\* acc16 * (acc16 + 2^16) with acc16 = a0 - b0 - c0 and
\* acc = acc16 + 2^16 * (a1 - b1 - c1), and both evaluate to 0 on that
\* assignment: the DebugConstraintBuilder returns from both assertions.
Add2Complete ==
    (last.op = "add2" /\ IsSum(last.args)) =>
        /\ FrModulus > 2 ^ 17
        /\ constraints(builder) = Add2Constraints
        /\ \A k \in DOMAIN constraints(builder) :
              FrEval(constraints(builder)[k], last.args) = 0
        /\ outcome.status = "returned"

\* 0xFFFF8000 + 0x00018000 = 0x00010000 mod 2^32: a carry out of the low
\* limbs and a sum that wraps, accepted by add2
Add2CompleteWitness ==
    /\ last.op = "add2"
    /\ last.args = <<0, 1, 32768, 65535, 32768, 1>>
    /\ IsSum(last.args)
    /\ outcome.status = "returned"
    /\ Len(constraints(builder)) = 2

\* every limb of the row is a 16-bit value
RangeChecked(local) == \A k \in DOMAIN local : local[k] \in 0 .. (2 ^ 16 - 1)

\* every constraint the builder holds evaluates to 0 in Fr on the row
ConstraintsVanish(local) ==
    \A k \in DOMAIN constraints(builder) :
        FrEval(constraints(builder)[k], local) = 0

\* C21: over a field of characteristic above 2^17, if the six limbs a0,
\* a1, b0, b1, c0, c1 lie in [0, 2^16) and both constraints add2 emitted
\* evaluate to 0, then a0 + 2^16 * a1 = (b0 + 2^16 * b1 + c0 + 2^16 * c1)
\* mod 2^32 over the integers; the DebugConstraintBuilder returns from add2
\* on no other row.
Add2Sound ==
    (last.op = "add2" /\ RangeChecked(last.args)) =>
        /\ FrModulus > 2 ^ 17
        /\ Len(constraints(builder)) = 2
        /\ ConstraintsVanish(last.args) => IsSum(last.args)
        /\ outcome.status = "returned" => IsSum(last.args)

\* 0xFFFFFFFF + 0xFFFFFFFF = 0xFFFFFFFE mod 2^32: both constraints vanish on
\* the row
Add2SoundWitness ==
    /\ last.op = "add2"
    /\ last.args = <<65534, 65535, 65535, 65535, 65535, 65535>>
    /\ ConstraintsVanish(last.args)
    /\ Len(constraints(builder)) = 2


\* the row and the shift of a call of xor_32_shift, and the limbs and bits
\* the row holds
XorShiftRow == last.args[1]
XorShiftBy == last.args[2]
XorShiftB == SubSeq(XorShiftRow, 3, 34)
XorShiftC == SubSeq(XorShiftRow, 35, 66)

\* the expression that x is a bit, for the j-th bit of c
XorShiftCVar(j) == Variable(SymbolicVariable(Main(0), 34 + j))
IsBool(x) == Mul(x, Sub(x, Constant(1), 1), 2)

\* C22: xor_32_shift(a, b, c, shift) with 0 <= shift <= 32 emits exactly 34
\* constraints in this order: assert_bool(c_j) for j = 0..31, then a0 = the
\* sum over i in [0, 16) of 2^i * xor(b_i, c_((32 + i - shift) mod 32)),
\* then a1 = the same sum for the bits 16 + i; every index into c lies in
\* [0, 32), and for Boolean b and c all constraints evaluate to 0 exactly
\* when a0 and a1 are the low and high 16-bit limbs of b XOR (c shifted
\* left by shift, indices wrapping modulo 32).
XorShiftConstraints ==
    last.op = "xor_32_shift" =>
        LET cs == constraints(builder)
            low == ShiftedXorLimb(XorShiftB, XorShiftC, XorShiftBy, 0)
            high == ShiftedXorLimb(XorShiftB, XorShiftC, XorShiftBy, 16)
        IN /\ XorShiftBy \in 0 .. 32
           /\ Len(cs) = 34
           /\ \A j \in 0 .. 31 : cs[j + 1] = IsBool(XorShiftCVar(j))
           /\ \A i \in 0 .. 31 :
                 /\ ShiftedIndex(i, XorShiftBy) \in 0 .. 31
                 /\ ShiftedIndex(i, XorShiftBy) = (i - XorShiftBy) % 32
           /\ FrEval(cs[33], XorShiftRow) = FrSub(XorShiftRow[1], low)
           /\ FrEval(cs[34], XorShiftRow) = FrSub(XorShiftRow[2], high)
           /\ ConstraintsVanish(XorShiftRow)
                 <=> (XorShiftRow[1] = low /\ XorShiftRow[2] = high)
           /\ outcome.status = "returned"
                 <=> (XorShiftRow[1] = low /\ XorShiftRow[2] = high)

\* 0xAAAA5555 XOR (0x00000001 shifted left by 17) = 0xAAA85555 was accepted
XorShiftConstraintsWitness ==
    /\ last.op = "xor_32_shift"
    /\ XorShiftBy = 17
    /\ SubSeq(XorShiftRow, 1, 2) = <<21845, 43688>>
    /\ XorShiftB = BitsOf(U32(43690, 21845))
    /\ XorShiftC = BitsOf(U32(0, 1))
    /\ outcome.status = "returned"
    /\ Len(constraints(builder)) = 34

---------------------------------------------------------------------------
(* ColSpec: a caller builds a VirtualPairCol with one of its constructors  *)
(* and applies it to a preprocessed row and a main row.  last is the       *)
(* constructor and its arguments, outcome.value the column, the rows and   *)
(* what apply returned.                                                    *)

\* the rows have MaxWidth cells; the preprocessed row is all zero or
\* differs from the main row in every cell
ColRows == [1 .. MaxWidth -> Felts]
ColPreprocessedRows(main_) ==
    {[i \in 1 .. MaxWidth |-> Fzero], [i \in 1 .. MaxWidth |-> FAdd(main_[i], Fone)]}
ColIndices == 0 .. (MaxWidth - 1)

\* the column lists of sum_*, and the weighted columns of new: at most
\* MaxSeq columns, the k-th with the weight w + k
ColumnLists == UNION {[1 .. n -> ColIndices] : n \in 0 .. (MaxSeq + 1)}
PairCols ==
    {PairCol_Preprocessed(i) : i \in ColIndices}
        \cup {PairCol_Main(i) : i \in ColIndices}
WeightLists ==
    {[k \in DOMAIN columns |-> <<columns[k], FAdd(w, k % P)>>] :
        columns \in UNION {[1 .. n -> PairCols] : n \in 0 .. MaxSeq},
        w \in {Fzero, FSub(Fzero, Fone)}}

ColInit ==
    /\ acc = zero
    /\ last = Op("leaf", <<>>, 0)
    /\ params = NoParams
    /\ builder = NoBuilder
    /\ calls = <<>>
    /\ NoRun

Applied(name, args, col) ==
    /\ outcome.status = "idle"
    /\ \E main_ \in ColRows :
       \E preprocessed_ \in ColPreprocessedRows(main_) :
          outcome' = Ended("apply",
                           Returned([col |-> col,
                                     preprocessed |-> preprocessed_,
                                     main |-> main_,
                                     result |-> apply(col, preprocessed_, main_)]))
    /\ last' = Op(name, args, 0)
    /\ UNCHANGED <<acc, params, builder, calls, air, trace, pis, row>>

ColNew ==
    \E column_weights \in WeightLists, c \in {Fzero, Fone} :
        Applied("new", <<column_weights, c>>, VirtualPairCol(column_weights, c))

ColConstant == \E c \in Felts : Applied("constant", <<c>>, constant(c))

ColSingleMain ==
    \E i \in ColIndices : Applied("single_main", <<i>>, single_main(i))

ColSinglePreprocessed ==
    \E i \in ColIndices :
        Applied("single_preprocessed", <<i>>, single_preprocessed(i))

ColSumMain ==
    \E columns \in ColumnLists : Applied("sum_main", <<columns>>, sum_main(columns))

ColSumPreprocessed ==
    \E columns \in ColumnLists :
        Applied("sum_preprocessed", <<columns>>, sum_preprocessed(columns))

ColDiffMain ==
    \E a \in ColIndices, b \in ColIndices :
        Applied("diff_main", <<a, b>>, diff_main(a, b))

ColDiffPreprocessed ==
    \E a \in ColIndices, b \in ColIndices :
        Applied("diff_preprocessed", <<a, b>>, diff_preprocessed(a, b))

ColNext ==
    \/ ColNew
    \/ ColConstant
    \/ ColSingleMain
    \/ ColSinglePreprocessed
    \/ ColSumMain
    \/ ColSumPreprocessed
    \/ ColDiffMain
    \/ ColDiffPreprocessed

ColSpec == ColInit /\ [][ColNext]_vars

---------------------------------------------------------------------------
(* Properties of VirtualPairCol, checked under ColSpec *)

\* the row a PairCol reads from
RowOf(column, v) == IF column[1] = "Preprocessed" THEN v.preprocessed ELSE v.main

\* the sum over the stored pairs from the k-th on of weight * row[column]
RECURSIVE WeightedColumns(_, _)
WeightedColumns(v, k) ==
    IF k > Len(v.col.column_weights) THEN 0
    ELSE LET pair == v.col.column_weights[k]
         IN pair[2] * RowOf(pair[1], v)[pair[1][2] + 1] + WeightedColumns(v, k + 1)

\* the sum of row[col] over the columns from the k-th on, repeats counted
RECURSIVE SumOfCells(_, _, _)
SumOfCells(r, columns, k) ==
    IF k > Len(columns) THEN 0
    ELSE r[columns[k] + 1] + SumOfCells(r, columns, k + 1)

\* C23: apply(preprocessed_row, main_row) returns constant + the sum over
\* the stored (column, weight) pairs of weight * row[column], reading
\* preprocessed_row for Preprocessed(i) and main_row for Main(i); hence
\* constant(c) applies to c, single_main(i) to main_row[i],
\* single_preprocessed(i) to preprocessed_row[i], sum_main(cols) to the sum
\* of main_row[col] over cols, repeats counted, and diff_main(a, b) /
\* diff_preprocessed(a, b) to row[a] - row[b].
ApplyAffine ==
    outcome.op = "apply" =>
        LET v == outcome.value
            args == last.args
        IN /\ v.result = (v.col.constant + WeightedColumns(v, 1)) % P
           /\ last.op = "constant" => v.result = args[1]
           /\ last.op = "single_main" => v.result = v.main[args[1] + 1]
           /\ last.op = "single_preprocessed" =>
                 v.result = v.preprocessed[args[1] + 1]
           /\ last.op = "sum_main" =>
                 v.result = SumOfCells(v.main, args[1], 1) % P
           /\ last.op = "sum_preprocessed" =>
                 v.result = SumOfCells(v.preprocessed, args[1], 1) % P
           /\ last.op = "diff_main" =>
                 v.result = (v.main[args[1] + 1] - v.main[args[2] + 1]) % P
           /\ last.op = "diff_preprocessed" =>
                 v.result =
                    (v.preprocessed[args[1] + 1] - v.preprocessed[args[2] + 1]) % P

\* a column was summed with itself and another one from a main row that
\* differs from the preprocessed row
ApplyAffineWitness ==
    /\ outcome.op = "apply"
    /\ last.op = "sum_main"
    /\ last.args[1] = <<1, 0, 1>>
    /\ outcome.value.main = <<1, 2>>
    /\ outcome.value.preprocessed = <<0, 0>>
    /\ outcome.value.result = 5 % P

---------------------------------------------------------------------------
(* Properties of the builders of check_constraints, checked under AirSpec *)

Rows == 0 .. (height(trace) - 1)
TraceRow(i) == [k \in 1 .. trace.width |-> Cell(trace, i, k - 1)]
Bit(v) == IF v THEN 1 ELSE 0

\* C24: for a trace of any height h >= 1, the debug builder for row i in
\* [0, h) is given local row i and next row (i + 1) mod h (row 0 for the
\* last row), is_first_row = 1 iff i = 0, is_last_row = 1 iff i = h - 1,
\* is_transition = 1 iff i # h - 1, all selectors in {0, 1}; so exactly one
\* row has is_first_row = 1, exactly one has is_last_row = 1, and
\* is_last_row + is_transition = 1 on every row (for h = 1 the single row
\* is first and last, is not a transition and is its own next row).
RowSelectors ==
    height(trace) >= 1 =>
        /\ \A i \in Rows :
              LET b == RowBuilder(i)
                  h == height(trace)
              IN /\ b.row_index = i
                 /\ row_slice(debug_main(b), 0) = TraceRow(i)
                 /\ row_slice(debug_main(b), 1) = TraceRow((i + 1) % h)
                 /\ i = h - 1 => row_slice(debug_main(b), 1) = TraceRow(0)
                 /\ debug_is_first_row(b) = Bit(i = 0)
                 /\ debug_is_last_row(b) = Bit(i = h - 1)
                 /\ debug_is_transition(b) = Bit(i # h - 1)
                 /\ debug_is_last_row(b) + debug_is_transition(b) = 1
        /\ Cardinality({i \in Rows : debug_is_first_row(RowBuilder(i)) = 1}) = 1
        /\ Cardinality({i \in Rows : debug_is_last_row(RowBuilder(i)) = 1}) = 1
        /\ \A j \in DOMAIN calls : calls[j].args[1] \in Rows

\* every row of a trace of height 8 has been evaluated: the builder of the
\* last one had row 0 as its next row
RowSelectorsWitness ==
    /\ CheckReturned
    /\ height(trace) = 8
    /\ Len(calls) = 8
    /\ row_slice(debug_main(RowBuilder(7)), 1) = TraceRow(0)
    /\ TraceRow(0) # TraceRow(7)
    /\ debug_is_transition(RowBuilder(7)) = 0

\* the filters a DebugConstraintBuilder hands out without a panic
RowFilters(b) ==
    {debug_when_first_row(b), debug_when_last_row(b), debug_when_transition(b),
     debug_when_transition_window(b, 2).value}

\* C25: in debug evaluation a filtered assertion whose selector evaluates
\* to 0 on a row never panics on that row, whatever the filtered expression
\* evaluates to; in particular a constraint emitted under when_transition()
\* never causes a panic on the last row, whatever row 0, the wrapped-around
\* next row, holds.
FilterOffNeverPanics ==
    height(trace) >= 1 =>
        /\ \A i \in Rows : \A fb \in RowFilters(RowBuilder(i)) :
              condition(fb) = Fzero =>
                 \A x \in Felts, y \in Felts :
                    /\ debug_filtered_assert_zero(fb, x).panic = <<>>
                    /\ debug_filtered_assert_eq(fb, x, y).panic = <<>>
        /\ condition(debug_when_transition(RowBuilder(height(trace) - 1))) = Fzero
        /\ (CheckPanicked /\ WindowsSupported) =>
              LET st == air.eval[outcome.at]
                  i == outcome.panic[3]
              IN /\ FilterOn(st.when, i)
                 /\ st.when[1] \in {"when_transition", "when_transition_window"}
                       => i # height(trace) - 1

\* a trace of the Fibonacci AIR whose last row does not continue into row 0
\* has passed the check
FilterOffNeverPanicsWitness ==
    /\ CheckReturned
    /\ air = FibonacciAir
    /\ height(trace) = 4
    /\ \E k \in DOMAIN air.eval :
          /\ air.eval[k].when = WhenTransition
          /\ TermValue(air.eval[k].args[1], 3) # TermValue(air.eval[k].args[2], 3)

---------------------------------------------------------------------------
(* Further properties of the expression algebra, checked under ExprSpec *)

\* C26: subtraction is never simplified on a left zero: for every
\* non-constant expression e, Constant(0) - e is the node
\* Sub{x: Constant(0), y: e, degree_multiple: deg(e)} and is never
\* structurally equal to e.
LeftZeroSubKept ==
    (/\ last.op = "sub"
     /\ last.args[1] = Constant(0)
     /\ ~IsConstant(last.args[2])) =>
        LET e == last.args[2]
        IN /\ acc = <<"Sub", <<"Constant", 0>>, e, StructuralDegree(e)>>
           /\ degree_multiple(acc) = degree_multiple(e)
           /\ acc # e

\* zero minus a product of two variables is a Sub node of degree 2
LeftZeroSubKeptWitness ==
    /\ last.op = "sub"
    /\ last.args[1] = Constant(0)
    /\ Tag(last.args[2]) = "Mul"
    /\ degree_multiple(last.args[2]) = 2
    /\ Tag(acc) = "Sub"
    /\ acc[3] = last.args[2]

\* the left fold of + over s that starts from the expression start
RECURSIVE FoldAdd(_, _)
FoldAdd(start, s) ==
    IF Len(s) = 0 THEN start
    ELSE add(FoldAdd(start, SubSeq(s, 1, Len(s) - 1)), s[Len(s)])

\* the left fold of * over s that starts from the expression start
RECURSIVE FoldMul(_, _)
FoldMul(start, s) ==
    IF Len(s) = 0 THEN start
    ELSE mul(FoldMul(start, SubSeq(s, 1, Len(s) - 1)), s[Len(s)])

\* C27: the Sum of e1..en is structurally (((Constant(0) + e1) + e2) ... + en)
\* and the Product is the left fold of * starting from Constant(1); the
\* empty Sum is Constant(0) and the empty Product is Constant(1).
SumFoldsFromZero ==
    /\ last.op = "sum" => acc = FoldAdd(Constant(0), last.args)
    /\ last.op = "product" => acc = FoldMul(Constant(1), last.args)

---------------------------------------------------------------------------
(* The two assert_eq of a DebugConstraintBuilder, checked under AirSpec *)

PanicRow(r) == r.panic[3]

\* C28: in the DebugConstraintBuilder the overridden assert_eq(x, y) has
\* the same pass/fail outcome as the provided assert_zero(x - y): for all
\* field elements x and y it panics if and only if assert_zero(x - y)
\* would panic, and both report the same row index.  This holds on the
\* builder of each row the loop of check_constraints comes to, and for the
\* unfiltered assert_eq that ended a check_constraints.
AssertEqAgrees ==
    /\ \A i \in Rows \cap {row}, x \in Felts, y \in Felts :
          LET b == RowBuilder(i)
              overridden == debug_assert_eq(b, x, y)
              provided == debug_assert_eq_provided(b, x, y)
          IN /\ (overridden.panic # <<>>) <=> (provided.panic # <<>>)
             /\ (overridden.panic # <<>>) <=> (x # y)
             /\ overridden.value = provided.value
             /\ overridden.panic # <<>> =>
                   /\ PanicRow(overridden) = i
                   /\ PanicRow(provided) = i
    /\ (/\ CheckPanicked
        /\ air.eval[outcome.at].when = Unfiltered
        /\ air.eval[outcome.at].name = "assert_eq") =>
          LET b == RowBuilder(row)
              st == air.eval[outcome.at]
              provided == debug_assert_eq_provided(b, DebugTerm(b, st.args[1]),
                                                   DebugTerm(b, st.args[2]))
          IN /\ provided.panic # <<>>
             /\ PanicRow(provided) = outcome.panic[3]
             /\ outcome.panic[3] = row

\* an unfiltered assert_eq ended check_constraints on a row after the first
AssertEqAgreesWitness ==
    /\ CheckPanicked
    /\ air.eval[outcome.at].when = Unfiltered
    /\ air.eval[outcome.at].name = "assert_eq"
    /\ outcome.panic[2] = "values didn't match on row"
    /\ outcome.panic[3] = row
    /\ row >= 1

---------------------------------------------------------------------------
(* The constraints recorded by the SymbolicAirBuilder against the         *)
(* assertions of the DebugConstraintBuilder, checked under AirSpec        *)

\* the value of a recorded expression on row i of the trace: Main variables
\* of offset 0 and 1 are the cells of row i and of row (i + 1) mod height,
\* Public variables the public values, the selectors their scalars of row i
RECURSIVE ValueOnRow(_, _)
ValueOnRow(e, i) ==
    CASE Tag(e) = "Constant" -> e[2]
      [] Tag(e) = "IsFirstRow" -> Bit(i = 0)
      [] Tag(e) = "IsLastRow" -> Bit(i = height(trace) - 1)
      [] Tag(e) = "IsTransition" -> Bit(i # height(trace) - 1)
      [] Tag(e) = "Variable" /\ e[2].entry[1] = "Main" ->
            Cell(trace, (i + e[2].entry[2]) % height(trace), e[2].index)
      [] Tag(e) = "Variable" /\ e[2].entry[1] = "Public" -> pis[e[2].index + 1]
      [] Tag(e) = "Add" -> (ValueOnRow(e[2], i) + ValueOnRow(e[3], i)) % P
      [] Tag(e) = "Sub" -> (ValueOnRow(e[2], i) - ValueOnRow(e[3], i)) % P
      [] Tag(e) = "Mul" -> (ValueOnRow(e[2], i) * ValueOnRow(e[3], i)) % P
      [] Tag(e) = "Neg" -> (0 - ValueOnRow(e[2], i)) % P

\* the constraints get_symbolic_constraints records for the AIR
Recorded ==
    get_symbolic_constraints(air, params.preprocessed_width,
                             params.num_public_values).value

\* every constraint of rec is zero on every row of rows
VanishOn(rec, rows) ==
    \A i \in rows, k \in DOMAIN rec : ValueOnRow(rec[k], i) = 0

AllVanish == VanishOn(Recorded, Rows)

\* C29: the symbolic and debug builders agree: on every row i the k-th
\* constraint recorded by the SymbolicAirBuilder, evaluated on row i of the
\* trace with the public values and the selector scalars of that row, is
\* zero exactly when the k-th assertion made on the DebugConstraintBuilder
\* for row i passes; hence check_constraints returns normally iff every
\* recorded constraint evaluates to zero on every row.  The AIR, the trace
\* and the public values are the arguments of the call and stay as they
\* are, so the rows are compared before the call starts.
BuildersAgree ==
    WindowsSupported =>
        LET rec == Recorded
        IN /\ Len(rec) = Len(air.eval)
           /\ outcome.op = "get_symbolic_constraints" => outcome.value = rec
           /\ outcome.status = "idle" =>
                 \A i \in Rows :
                    LET b == RowBuilder(i)
                    IN \A k \in DOMAIN air.eval :
                          (ValueOnRow(rec[k], i) = 0) <=>
                              (DebugStmt(b, air.eval[k]).panic = <<>>)
           /\ CheckReturned => VanishOn(rec, Rows)
           /\ CheckPanicked =>
                 /\ VanishOn(rec, 0 .. (row - 1))
                 /\ \A k \in 1 .. (outcome.at - 1) : ValueOnRow(rec[k], row) = 0
                 /\ ValueOnRow(rec[outcome.at], row) # 0
           /\ (Checking /\ row = height(trace) /\ height(trace) >= 1) =>
                 VanishOn(rec, Rows)

\* a check that got past row 0 and was ended on a later row by a filtered
\* equality whose recorded constraint, a product with a selector, is
\* nonzero there
BuildersAgreeWitness ==
    /\ WindowsSupported
    /\ CheckPanicked
    /\ row >= 1
    /\ Tag(Recorded[outcome.at]) = "Mul"
    /\ ValueOnRow(Recorded[outcome.at], row) # 0
    /\ ValueOnRow(Recorded[outcome.at], 0) = 0

\* a check of a trace of several rows returned, and every recorded
\* constraint vanishes on every row
BuildersAgreeReturnedWitness ==
    /\ WindowsSupported
    /\ CheckReturned
    /\ height(trace) >= 2
    /\ Len(Recorded) >= 1
    /\ AllVanish

---------------------------------------------------------------------------
(* FrameSpec: an eval that also asks the SymbolicAirBuilder for its        *)
(* windows, selectors, constants and gadget expressions between its       *)
(* assertion calls.  acc is what the last such operation returned and     *)
(* last names it; an assertion call returns nothing, so after it acc and  *)
(* last are as at the start.  An operation that borrows self immutably    *)
(* leaves the builder as it is; when borrows it mutably, and the builder  *)
(* after it is the one the dropped filter held.                           *)

FrameInit == Init

\* what this eval asserts on and combines: the last cell of the main
\* window, or a constant when the window is empty; it filters on the first
\* row, and nests the transition filter in that
FrameArgs(b) ==
    IF main(b).values = <<>>
    THEN {builder_one(b)}
    ELSE {Variable(main(b).values[Len(main(b).values)])}
FrameConds(b) == {is_first_row(b)}
FrameCondPairs(b) == {<<is_first_row(b), is_transition(b)>>}

\* an operation through &self that returns result
Asked(name, args, result) ==
    /\ Len(calls) < MaxCalls
    /\ acc' = result
    /\ last' = Op(name, args, 0)
    /\ UNCHANGED <<params, builder, calls, air, trace, pis, row, outcome>>

AskMain == Asked("main", <<>>, main(builder))
AskPreprocessed == Asked("preprocessed", <<>>, preprocessed(builder))
AskPublicValues == Asked("public_values", <<>>, public_values(builder))
AskIsFirstRow == Asked("is_first_row", <<>>, is_first_row(builder))
AskIsLastRow == Asked("is_last_row", <<>>, is_last_row(builder))
AskIsTransition == Asked("is_transition", <<>>, is_transition(builder))
AskZero == Asked("zero", <<>>, builder_zero(builder))
AskOne == Asked("one", <<>>, builder_one(builder))
AskTwo == Asked("two", <<>>, builder_two(builder))

AskFromU32 ==
    \E val \in {0, 2} : Asked("from_u32", <<val>>, builder_from_u32(builder, val))

AskXor ==
    \E x \in FrameArgs(builder), y \in EvalRhs(builder) :
        Asked("xor", <<x, y>>, builder_xor(builder, x, y))

AskXor3 ==
    \E x \in FrameArgs(builder), y \in EvalRhs(builder) :
        Asked("xor3", <<x, y, x>>, builder_xor3(builder, x, y, x))

AskAndn ==
    \E x \in FrameArgs(builder), y \in EvalRhs(builder) :
        Asked("andn", <<x, y>>, builder_andn(builder, x, y))

AskPackBitsLe ==
    \E x \in FrameArgs(builder), y \in EvalRhs(builder) :
        Asked("pack_bits_le", <<x, y>>, builder_pack_bits_le(builder, <<x, y>>))

\* builder.when(c), dropped without an assertion made through it; one() is
\* asked of the filter first
WhenDropped ==
    \E c \in FrameConds(builder) :
        LET fb == when(builder, c)
        IN /\ Len(calls) < MaxCalls
           /\ acc' = filtered_one(fb)
           /\ last' = Op("when", <<condition(fb)>>, 0)
           /\ builder' = fb.inner
           /\ UNCHANGED <<params, calls, air, trace, pis, row, outcome>>

\* an assertion call: the builder after it, and the call in the history
FrameEmit(b, name, conds, args) ==
    /\ Len(calls) < MaxCalls
    /\ builder' = b
    /\ calls' = Append(calls, Call(name, conds, args))
    /\ acc' = zero
    /\ last' = Op("leaf", <<>>, 0)
    /\ UNCHANGED <<params, air, trace, pis, row, outcome>>

FrameAssertZero ==
    \E x \in FrameArgs(builder) :
        FrameEmit(assert_zero(builder, x), "assert_zero", <<>>, <<x>>)

FrameAssertOne ==
    \E x \in FrameArgs(builder) :
        FrameEmit(assert_one(builder, x), "assert_one", <<>>, <<x>>)

FrameAssertEq ==
    \E x \in FrameArgs(builder), y \in EvalRhs(builder) :
        FrameEmit(assert_eq(builder, x, y), "assert_eq", <<>>, <<x, y>>)

FrameAssertBool ==
    \E x \in FrameArgs(builder) :
        FrameEmit(assert_bool(builder, x), "assert_bool", <<>>, <<x>>)

FrameAssertTern ==
    \E x \in FrameArgs(builder) :
        FrameEmit(assert_tern(builder, x), "assert_tern", <<>>, <<x>>)

FrameWhenAssertZero ==
    \E c \in FrameConds(builder), x \in FrameArgs(builder) :
        FrameEmit(filtered_assert_zero(when(builder, c), x),
                  "assert_zero", <<c>>, <<x>>)

FrameWhenAssertEq ==
    \E c \in FrameConds(builder), x \in FrameArgs(builder), y \in EvalRhs(builder) :
        FrameEmit(filtered_assert_eq(when(builder, c), x, y),
                  "assert_eq", <<c>>, <<x, y>>)

FrameWhenAssertOne ==
    \E c \in FrameConds(builder), x \in FrameArgs(builder) :
        FrameEmit(filtered_assert_one(when(builder, c), x),
                  "assert_one", <<c>>, <<x>>)

FrameWhenWhenAssertZero ==
    \E cs \in FrameCondPairs(builder), x \in FrameArgs(builder) :
        FrameEmit(filtered_assert_zero(
                      filtered_when(when(builder, cs[1]), cs[2]), x),
                  "assert_zero", cs, <<x>>)

FrameNext ==
    \/ AskMain
    \/ AskPreprocessed
    \/ AskPublicValues
    \/ AskIsFirstRow
    \/ AskIsLastRow
    \/ AskIsTransition
    \/ AskZero
    \/ AskOne
    \/ AskTwo
    \/ AskFromU32
    \/ AskXor
    \/ AskXor3
    \/ AskAndn
    \/ AskPackBitsLe
    \/ WhenDropped
    \/ FrameAssertZero
    \/ FrameAssertOne
    \/ FrameAssertEq
    \/ FrameAssertBool
    \/ FrameAssertTern
    \/ FrameWhenAssertZero
    \/ FrameWhenAssertEq
    \/ FrameWhenAssertOne
    \/ FrameWhenWhenAssertZero

FrameSpec == FrameInit /\ [][FrameNext]_vars

---------------------------------------------------------------------------
(* Properties checked under FrameSpec *)

IsPrefix(s, t) == Len(s) <= Len(t) /\ SubSeq(t, 1, Len(s)) = s

\* C30: on a SymbolicAirBuilder the non-assertion operations (main,
\* preprocessed, public_values, the selectors, zero, one, two, from_u32,
\* the gadget helpers xor, xor3, andn, pack_bits_le, and a when(...) filter
\* made and dropped without asserting) leave the constraint list
\* unchanged, and every assertion leaves all previously recorded
\* constraints and the main, preprocessed and public variables unchanged:
\* the list is append-only.
FrameEffect ==
    [][/\ calls' = calls => constraints(builder') = constraints(builder)
       /\ calls' # calls =>
             /\ IsPrefix(constraints(builder), constraints(builder'))
             /\ Len(constraints(builder')) = Len(constraints(builder)) + 1
       /\ main(builder') = main(builder)
       /\ preprocessed(builder') = preprocessed(builder)
       /\ public_values(builder') = public_values(builder)]_vars

\* a filter was made and dropped after an assertion, and the constraint
\* of that assertion is still the only one recorded
FrameEffectWitness ==
    /\ Len(calls) = 1
    /\ last.op = "when"
    /\ last.args = <<IsFirstRow>>
    /\ constraints(builder) = <<Expression(calls[1])>>
===========================================================================
